---- MODULE Spec2Model ----
(***************************************************************************)
(* A model of stk's reaction engine (stk/molecular/functional_groups.py): *)
(* _ReactionKey, the Reactor (add_reaction, add_periodic_reaction,        *)
(* finalize and the custom reaction procedures) and the molecule whose    *)
(* atoms, bonds and position matrix the Reactor edits.                    *)
(*                                                                         *)
(* Python lists and tuples are sequences; a Python index i is the TLA+    *)
(* index i + 1.  Atom ids are 0-based, as in the source.  A functional    *)
(* group is a mutable object: it is named by its index in func_groups, so *)
(* that passing the same group twice is passing the same index twice.     *)
(* Positions are kept in fixed point, four units to one unit of length,   *)
(* so that the halving of the ring-amine procedure is exact.              *)
(***************************************************************************)
EXTENDS Integers, Sequences, FiniteSets, TLC

VARIABLES
    scenario,          \* which molecule the Reactor was created on
    atoms,             \* mol.atoms
    bonds,             \* mol.bonds
    position_matrix,   \* mol._position_matrix
    func_groups,       \* the FunctionalGroup objects handed to the Reactor
    deleter_ids,       \* Reactor._deleter_ids
    bonds_made,        \* Reactor._bonds_made
    exc,               \* the exception that left the Reactor, "" if none
    last,              \* the last call made on the Reactor
    log,               \* the reaction calls that returned normally, in order
    returned,          \* what finalize returned, <<>> before the first return
    finalize_calls,    \* how many finalize calls returned normally
    calls,             \* the get_functional_groups calls made, in order
    cm,                \* the ConstructedMolecule call the Reactor works for
    objs,              \* the ConstructedMolecule instances made, in order
    cache,             \* ConstructedMolecule._cache: key -> instance
    doc,               \* the document to_json returned last, <<>> if none
    mlast,             \* the last call made on ConstructedMolecule
    mcalls,            \* how many such calls were made
    requests,          \* the _generate_key calls made, with their keys
    rs,                \* two Reactors, each with its own molecule
    hist,              \* the calls made on each of the two, in order
    registries,        \* the tables of the Reactor class, shared by all
    ever_staged,       \* every id that was ever in _deleter_ids
    names1, names2,    \* two argument lists of _ReactionKey
    key1, key2         \* the keys built from them

vars == <<scenario, atoms, bonds, position_matrix, func_groups, deleter_ids,
          bonds_made, exc, last, log, returned, finalize_calls, ever_staged,
          names1, names2, key1, key2, calls, cm, objs, cache, doc, mlast,
          mcalls, requests, rs, hist, registries>>

reactor_vars == <<scenario, atoms, bonds, position_matrix, func_groups,
                  deleter_ids, bonds_made, exc, last, log, returned,
                  finalize_calls, ever_staged>>

key_vars == <<names1, names2, key1, key2>>

matcher_vars == <<calls>>

construct_vars == <<cm>>

molecule_vars == <<objs, cache, doc, mlast, mcalls>>

ckey_vars == <<requests>>

pair_vars == <<rs, hist, registries>>

\* what the Reactor, _ReactionKey and get_functional_groups never touch
assembly_vars == <<molecule_vars, ckey_vars, pair_vars>>

----------------------------------------------------------------------------
(* Bounds of the model. *)

\* add_reaction / add_periodic_reaction calls made on one Reactor
MaxReactions == 2

\* finalize calls made on one Reactor
MaxFinalize == 2

\* names given to one _ReactionKey
MaxNames == 3

\* functional group names asked for in one request
MaxRequested == 2

\* get_functional_groups calls made
MaxCalls == 2

----------------------------------------------------------------------------
(* Sequences. *)

Range(s) == {s[i] : i \in 1..Len(s)}

SeqsUpTo(S, n) == UNION {[1..k -> S] : k \in 0..n}

RECURSIVE KeptRowsFromOne(_, _, _)
\* the filter, were the rows counted from one
KeptRowsFromOne(rows, i, ids) ==
    IF rows = <<>> THEN <<>>
    ELSE IF i + 1 \notin ids
         THEN <<Head(rows)>> \o KeptRowsFromOne(Tail(rows), i + 1, ids)
         ELSE KeptRowsFromOne(Tail(rows), i + 1, ids)

RECURSIVE KeptRows(_, _, _)
\* [row for i, row in enumerate(rows) if i not in ids]
KeptRows(rows, i, ids) ==
    IF rows = <<>> THEN <<>>
    ELSE IF i \notin ids
         THEN <<Head(rows)>> \o KeptRows(Tail(rows), i + 1, ids)
         ELSE KeptRows(Tail(rows), i + 1, ids)

RECURSIVE SumSeq(_)
SumSeq(s) == IF s = <<>> THEN 0 ELSE Head(s) + SumSeq(Tail(s))

----------------------------------------------------------------------------
(* Atoms and bonds.  An atom is an object with an id and an atomic number. *)
(* A bond holds whatever it was given as atom1 and atom2: Atom objects,   *)
(* or, from _diol_with_dihalogen, bare integer ids.                       *)

Atom(id, atomic_number) == [id |-> id, atomic_number |-> atomic_number]

elements_H(id) == Atom(id, 1)
elements_C(id) == Atom(id, 6)

\* a bare integer where an Atom is expected: it has no attribute id
IntRef(i) == [int |-> i]

HasId(x) == "id" \in DOMAIN x

Bond(atom1, atom2, order) ==
    [atom1 |-> atom1, atom2 |-> atom2, order |-> order,
     periodic |-> FALSE, direction |-> <<>>]

PeriodicBond(atom1, atom2, order, direction) ==
    [atom1 |-> atom1, atom2 |-> atom2, order |-> order,
     periodic |-> TRUE, direction |-> direction]

FunctionalGroup(fg_atoms, bonders, deleters, fg_type) ==
    [atoms |-> fg_atoms, bonders |-> bonders, deleters |-> deleters,
     fg_type |-> fg_type]

Ids(atom_seq) == [i \in 1..Len(atom_seq) |-> atom_seq[i].id]

get_deleter_ids(fg) == Range(Ids(fg.deleters))

get_bonder_ids(fg) == Ids(fg.bonders)

----------------------------------------------------------------------------
(* _ReactionKey.  Python orders the (name, count) pairs by name; the      *)
(* names the Reactor's tables use, in that order:                         *)

FgNameOrder ==
    << "aldehyde", "alkyne2", "amide", "amine", "boronic_acid", "dibromine",
       "difluorene", "diol", "nitrile", "ring_amine", "terminal_alkene" >>

FgNames == Range(FgNameOrder)

\* Counter(fg_names): name -> number of times it was given
Counter(fg_names) ==
    [n \in Range(fg_names) |->
        Cardinality({i \in 1..Len(fg_names) : fg_names[i] = n})]

\* sorted((key, value) for key, value in c.items())
RECURSIVE SortedItems(_, _)
SortedItems(c, k) ==
    IF k > Len(FgNameOrder) THEN <<>>
    ELSE IF FgNameOrder[k] \in DOMAIN c
         THEN <<<<FgNameOrder[k], c[FgNameOrder[k]]>>>> \o SortedItems(c, k + 1)
         ELSE SortedItems(c, k + 1)

\* a faulty key that forgets how often each name was given
ReactionKeyNoCount(fg_names) ==
    SortedItems([n \in Range(fg_names) |-> 1], 1)

\* _ReactionKey(*fg_names)._key
ReactionKey(fg_names) == SortedItems(Counter(fg_names), 1)

\* _ReactionKey.__eq__
KeyEq(k1, k2) == k1 = k2

----------------------------------------------------------------------------
(* The Reactor's class-level tables. *)

\* Reactor._bond_orders: <<key, bond order>>
bond_orders ==
    { <<ReactionKey(<<"amine", "aldehyde">>), 2>>,
      <<ReactionKey(<<"amide", "aldehyde">>), 2>>,
      <<ReactionKey(<<"nitrile", "aldehyde">>), 2>>,
      <<ReactionKey(<<"amide", "amine">>), 2>>,
      <<ReactionKey(<<"terminal_alkene", "terminal_alkene">>), 2>>,
      <<ReactionKey(<<"alkyne2", "alkyne2">>), 3>> }

\* Reactor._custom_reactions: <<key, procedure>>
custom_reactions ==
    { <<ReactionKey(<<"boronic_acid", "diol">>), "_boronic_acid_with_diol">>,
      <<ReactionKey(<<"diol", "difluorene">>), "_diol_with_dihalogen">>,
      <<ReactionKey(<<"diol", "dibromine">>), "_diol_with_dihalogen">>,
      <<ReactionKey(<<"ring_amine", "ring_amine">>),
        "_ring_amine_with_ring_amine">> }

\* Reactor._periodic_custom_reactions
periodic_custom_reactions == {}

\* key in table
InTable(table, key) == \E e \in table : KeyEq(e[1], key)

\* table[key]
TableAt(table, key) == (CHOOSE e \in table : KeyEq(e[1], key))[2]

\* table.get(key, default)
TableGet(table, key, default) ==
    IF InTable(table, key) THEN TableAt(table, key) ELSE default

----------------------------------------------------------------------------
(* The molecule's geometry: Molecule.get_atom_coords and                  *)
(* Molecule.get_atom_distance read the row of the position matrix whose   *)
(* index is the atom's id.                                                *)

VecAdd(v, w) == <<v[1] + w[1], v[2] + w[2], v[3] + w[3]>>

\* v / 2
VecHalf(v) == <<v[1] \div 2, v[2] \div 2, v[3] \div 2>>

\* np.array([0, 0, 1]) and np.array([0, 0, -1]), in fixed point
ZUp == <<0, 0, 4>>
ZDown == <<0, 0, -4>>

RowExists(S, id) == id + 1 \in 1..Len(S.position_matrix)

Row(S, id) == S.position_matrix[id + 1]

\* the square of get_atom_distance(id1, id2): it orders pairs as the
\* distance does
get_atom_distance(S, id1, id2) ==
    LET p == Row(S, id1)
        q == Row(S, id2)
    IN  (p[1] - q[1]) * (p[1] - q[1]) + (p[2] - q[2]) * (p[2] - q[2])
        + (p[3] - q[3]) * (p[3] - q[3])

\* get_atom_coords(atom_ids): the rows, in the order asked for
get_atom_coords(S, atom_seq) ==
    [k \in 1..Len(atom_seq) |-> Row(S, atom_seq[k].id)]

----------------------------------------------------------------------------
(* The Reactor's operations, as functions of the state S they run in:     *)
(* S holds the molecule (atoms, bonds, position_matrix), the functional   *)
(* groups (func_groups), the Reactor's fields (deleter_ids, bonds_made)   *)
(* and exc, the exception the call raised ("" if it returned).  fgs is    *)
(* the argument list *fgs, as indices into func_groups.                   *)

Raise(S, e) == [S EXCEPT !.exc = e]

NotStaged(S, atom_seq) ==
    LET Keep(a) == a.id \notin S.deleter_ids
    IN  SelectSeq(atom_seq, Keep)

\* a faulty iteration that takes the staged atoms out of the molecule at
\* once
StageShrinkClearEager(S, i) ==
    LET S1 == [S EXCEPT !.deleter_ids =
                   @ \cup get_deleter_ids(S.func_groups[i])]
    IN  [S1 EXCEPT !.func_groups[i].atoms = NotStaged(S1, @),
                   !.func_groups[i].deleters = <<>>,
                   !.atoms = NotStaged(S1, @)]

\* a faulty iteration that takes only the group's own deleters out of its
\* atoms
StageShrinkOwnClear(S, i) ==
    LET S1 == [S EXCEPT !.deleter_ids =
                   @ \cup get_deleter_ids(S.func_groups[i])]
        Keep(a) == a.id \notin get_deleter_ids(S.func_groups[i])
    IN  [S1 EXCEPT !.func_groups[i].atoms = SelectSeq(@, Keep),
                   !.func_groups[i].deleters = <<>>]

\* one iteration of add_reaction's loop over fgs (lines 661-665)
StageShrinkClear(S, i) ==
    LET S1 == [S EXCEPT !.deleter_ids =
                   @ \cup get_deleter_ids(S.func_groups[i])]
    IN  [S1 EXCEPT !.func_groups[i].atoms = NotStaged(S1, @),
                   !.func_groups[i].deleters = <<>>]

\* a faulty iteration that drops the rows of the deleters at once
StageClearEager(S, i) ==
    [S EXCEPT !.deleter_ids = @ \cup get_deleter_ids(S.func_groups[i]),
              !.func_groups[i].deleters = <<>>,
              !.position_matrix =
                  KeptRows(@, 0, get_deleter_ids(S.func_groups[i]))]

\* one iteration of add_periodic_reaction's loop over fgs (lines 696-697)
StageClear(S, i) ==
    [S EXCEPT !.deleter_ids = @ \cup get_deleter_ids(S.func_groups[i]),
              !.func_groups[i].deleters = <<>>]

\* for fg in fgs: ... of add_reaction
RECURSIVE StageLoop(_, _)
StageLoop(S, fgs) ==
    IF fgs = <<>> THEN S
    ELSE StageLoop(StageShrinkClear(S, Head(fgs)), Tail(fgs))

\* for fg in fgs: ... of add_periodic_reaction
RECURSIVE PeriodicStageLoop(_, _)
PeriodicStageLoop(S, fgs) ==
    IF fgs = <<>> THEN S
    ELSE PeriodicStageLoop(StageClear(S, Head(fgs)), Tail(fgs))

\* [fg.fg_type.name for fg in fgs]
Names(S, fgs) == [k \in 1..Len(fgs) |-> S.func_groups[fgs[k]].fg_type]

\* a faulty default reaction that counts its one bond twice
DefaultBondCountsTwo(S, fgs, reaction_key) ==
    LET bond == TableGet(bond_orders, reaction_key, 1)
    IN  IF Len(fgs) # 2 THEN Raise(S, "ValueError")
        ELSE LET fg1 == S.func_groups[fgs[1]]
                 fg2 == S.func_groups[fgs[2]]
             IN  IF fg1.bonders = <<>> \/ fg2.bonders = <<>>
                 THEN Raise(S, "IndexError")
                 ELSE [S EXCEPT
                         !.bonds = Append(@, Bond(fg1.bonders[1],
                                                  fg2.bonders[1], bond)),
                         !.bonds_made = @ + 2]

\* the default reaction of add_reaction, after its loop (lines 667-672)
\* a default bond that looks the bond order up for the first bond the
\* Reactor makes only
DefaultBondFirstLookedUp(S, fgs, reaction_key) ==
    IF Len(fgs) # 2 THEN Raise(S, "ValueError")
    ELSE IF S.func_groups[fgs[1]].bonders = <<>>
            \/ S.func_groups[fgs[2]].bonders = <<>>
         THEN Raise(S, "IndexError")
         ELSE [S EXCEPT
                 !.bonds = Append(@, Bond(S.func_groups[fgs[1]].bonders[1],
                                          S.func_groups[fgs[2]].bonders[1],
                                          IF S.bonds_made = 0
                                          THEN TableGet(bond_orders,
                                                        reaction_key, 1)
                                          ELSE 1)),
                 !.bonds_made = @ + 1]

DefaultBond(S, fgs, reaction_key) ==
    LET bond == TableGet(bond_orders, reaction_key, 1)
    IN  IF Len(fgs) # 2 THEN Raise(S, "ValueError")
        ELSE LET fg1 == S.func_groups[fgs[1]]
                 fg2 == S.func_groups[fgs[2]]
             IN  IF fg1.bonders = <<>> \/ fg2.bonders = <<>>
                 THEN Raise(S, "IndexError")
                 ELSE [S EXCEPT
                         !.bonds = Append(@, Bond(fg1.bonders[1],
                                                  fg2.bonders[1], bond)),
                         !.bonds_made = @ + 1]

\* the default reaction of add_periodic_reaction (lines 705-717)
DefaultPeriodicBond(S, direction, fgs, reaction_key) ==
    LET bond == TableGet(bond_orders, reaction_key, 1)
    IN  IF Len(fgs) # 2 THEN Raise(S, "ValueError")
        ELSE LET fg1 == S.func_groups[fgs[1]]
                 fg2 == S.func_groups[fgs[2]]
             IN  IF fg1.bonders = <<>> \/ fg2.bonders = <<>>
                 THEN Raise(S, "IndexError")
                 ELSE [S EXCEPT
                         !.bonds = Append(@, PeriodicBond(fg1.bonders[1],
                                        fg2.bonders[1], bond, direction)),
                         !.bonds_made = @ + 1]

----------------------------------------------------------------------------
(* The custom reaction procedures. *)

\* distances.sort(): tuples (d, carbon, oxygen) in Python's tuple order
TripleLess(a, b) ==
    \/ a[1] < b[1]
    \/ a[1] = b[1] /\ a[2] < b[2]
    \/ a[1] = b[1] /\ a[2] = b[2] /\ a[3] < b[3]

RECURSIVE InsertSorted(_, _)
InsertSorted(sorted, t) ==
    IF sorted = <<>> THEN <<t>>
    ELSE IF TripleLess(t, Head(sorted)) THEN <<t>> \o sorted
         ELSE <<Head(sorted)>> \o InsertSorted(Tail(sorted), t)

\* the list left as it was built
Unsorted(ts) == ts

RECURSIVE SortTriples(_)
\* distances.sort() (line 776)
SortTriples(ts) ==
    IF ts = <<>> THEN <<>>
    ELSE InsertSorted(SortTriples(Tail(ts)), Head(ts))

\* the nested loops of lines 771-775: carbons outside, oxygens inside
DistanceList(S, carbons, oxygens) ==
    [k \in 1..(Len(carbons) * Len(oxygens)) |->
        LET c == carbons[((k - 1) \div Len(oxygens)) + 1]
            o == oxygens[((k - 1) % Len(oxygens)) + 1]
        IN  <<get_atom_distance(S, c, o), c, o>>]

\* lines 778-784: the pairs kept, nearest first, no carbon or oxygen twice
RECURSIVE DedupedPairs(_, _, _)
DedupedPairs(distances, seen_c, seen_o) ==
    IF distances = <<>> THEN <<>>
    ELSE LET c == Head(distances)[2]
             o == Head(distances)[3]
         IN  IF c \notin seen_c /\ o \notin seen_o
             THEN <<<<c, o>>>> \o DedupedPairs(Tail(distances),
                                     seen_c \cup {c}, seen_o \cup {o})
             ELSE DedupedPairs(Tail(distances), seen_c, seen_o)

\* a faulty procedure that bonds the pairs it finds when they are fewer
\* than two
diol_with_dihalogen_fewer(S, i1, i2) ==
    LET diol == IF S.func_groups[i1].fg_type = "diol" THEN i1 ELSE i2
        dihalogen == IF diol = i1 THEN i2 ELSE i1
        carbons == get_bonder_ids(S.func_groups[dihalogen])
        oxygens == get_bonder_ids(S.func_groups[diol])
    IN  IF /\ carbons # <<>> /\ oxygens # <<>>
           /\ \E id \in Range(carbons) \cup Range(oxygens) : ~RowExists(S, id)
        THEN Raise(S, "IndexError")
        ELSE
        LET deduped_pairs ==
                DedupedPairs(SortTriples(DistanceList(S, carbons, oxygens)),
                             {}, {})
            made == IF Len(deduped_pairs) < 2 THEN Len(deduped_pairs) ELSE 2
        IN  [S EXCEPT
               !.bonds = @ \o
                   [k \in 1..made |-> Bond(IntRef(deduped_pairs[k][1]),
                                           IntRef(deduped_pairs[k][2]), 1)],
               !.bonds_made = @ + made]

\* Reactor._diol_with_dihalogen(fg1, fg2)
diol_with_dihalogen(S, i1, i2) ==
    LET diol == IF S.func_groups[i1].fg_type = "diol" THEN i1 ELSE i2
        dihalogen == IF diol = i1 THEN i2 ELSE i1
        carbons == get_bonder_ids(S.func_groups[dihalogen])
        oxygens == get_bonder_ids(S.func_groups[diol])
    IN  IF /\ carbons # <<>> /\ oxygens # <<>>
           /\ \E id \in Range(carbons) \cup Range(oxygens) : ~RowExists(S, id)
        THEN Raise(S, "IndexError")
        ELSE
        LET deduped_pairs ==
                DedupedPairs(SortTriples(DistanceList(S, carbons, oxygens)),
                             {}, {})
        IN  IF Len(deduped_pairs) < 2 THEN Raise(S, "ValueError")
            ELSE LET c1 == deduped_pairs[1][1]
                     o1 == deduped_pairs[1][2]
                     c2 == deduped_pairs[2][1]
                     o2 == deduped_pairs[2][2]
                 IN  IF ~(c1 # c2 /\ o1 # o2)
                     THEN Raise(S, "AssertionError")
                     ELSE [S EXCEPT
                             !.bonds = @ \o
                                 << Bond(IntRef(c1), IntRef(o1), 1),
                                    Bond(IntRef(c2), IntRef(o2), 1) >>,
                             !.bonds_made = @ + 2]

\* a faulty procedure that bonds the boron to the diol's first bonder twice
boronic_acid_with_diol_first_twice(S, i1, i2) ==
    LET S1 == StageLoop(S, <<i1, i2>>)
        boron == IF S1.func_groups[i1].fg_type = "boronic_acid"
                 THEN i1 ELSE i2
        diol == IF boron = i1 THEN i2 ELSE i1
        b == S1.func_groups[boron].bonders
        d == S1.func_groups[diol].bonders
    IN  IF b = <<>> \/ d = <<>> THEN Raise(S1, "IndexError")
        ELSE [S1 EXCEPT
                !.bonds = @ \o << Bond(b[1], d[1], 1), Bond(b[1], d[1], 1) >>,
                !.bonds_made = @ + 2]

\* Reactor._boronic_acid_with_diol(fg1, fg2)
boronic_acid_with_diol(S, i1, i2) ==
    LET S1 == StageLoop(S, <<i1, i2>>)
        boron == IF S1.func_groups[i1].fg_type = "boronic_acid"
                 THEN i1 ELSE i2
        diol == IF boron = i1 THEN i2 ELSE i1
        b == S1.func_groups[boron].bonders
        d == S1.func_groups[diol].bonders
    IN  IF b = <<>> \/ d = <<>> THEN Raise(S1, "IndexError")
        ELSE LET S2 == [S1 EXCEPT !.bonds = Append(@, Bond(b[1], d[1], 1))]
             IN  IF Len(d) < 2 THEN Raise(S2, "IndexError")
                 ELSE [S2 EXCEPT
                         !.bonds = Append(@, Bond(b[1], d[2], 1)),
                         !.bonds_made = @ + 2]

\* next(a for a in bonders if a.atomic_number == z); <<>> is StopIteration
FirstWith(bonders, z) ==
    LET Is(a) == a.atomic_number = z
    IN  SelectSeq(bonders, Is)

\* lines 852-855 and the like: a new atom, whose id is len(mol.atoms), and
\* its row
AppendAtom(S, atom, coord) ==
    [S EXCEPT !.atoms = Append(@, atom),
              !.position_matrix = Append(@, coord)]

RECURSIVE AppendNewAtomsCounted(_, _)
\* the new atoms, were each made with the id len(mol.atoms) + 1
AppendNewAtomsCounted(S, new_atoms) ==
    IF new_atoms = <<>> THEN S
    ELSE AppendNewAtomsCounted(
             AppendAtom(S, IF Head(new_atoms)[1] = 6
                           THEN elements_C(Len(S.atoms) + 1)
                           ELSE elements_H(Len(S.atoms) + 1),
                        Head(new_atoms)[2]),
             Tail(new_atoms))

RECURSIVE AppendNewAtoms(_, _)
\* the new atoms in the order the procedure makes them, each made with
\* the id len(mol.atoms) and appended with its row before the next is
\* made: new_atoms holds <<atomic number, coordinate>> of each
AppendNewAtoms(S, new_atoms) ==
    IF new_atoms = <<>> THEN S
    ELSE LET id == Len(S.atoms)
             atom == IF Head(new_atoms)[1] = 6 THEN elements_C(id)
                     ELSE elements_H(id)
         IN  AppendNewAtoms(AppendAtom(S, atom, Head(new_atoms)[2]),
                            Tail(new_atoms))

\* lines 849-895: n_joiner, nh1, nh2, nc_joiner1, nc1h1, nc1h2,
\* nc_joiner2, nc2h1, nc2h2.  get_atom_coords is asked for c1, n1, c2, n2
\* and its result is unpacked as n1_coord, n2_coord, c1_coord, c2_coord;
\* n_joiner is made with elements.C
RingAmineNewAtoms(coords) ==
    LET n1_coord == coords[1]
        n2_coord == coords[2]
        c1_coord == coords[3]
        c2_coord == coords[4]
        n_joiner_coord == VecHalf(VecAdd(n1_coord, n2_coord))
        nc_joiner1_coord == VecHalf(VecAdd(c1_coord, n2_coord))
        nc_joiner2_coord == VecHalf(VecAdd(c2_coord, n1_coord))
    IN  << <<6, n_joiner_coord>>,
           <<1, VecAdd(n_joiner_coord, ZUp)>>,
           <<1, VecAdd(n_joiner_coord, ZDown)>>,
           <<6, nc_joiner1_coord>>,
           <<1, VecAdd(nc_joiner1_coord, ZUp)>>,
           <<1, VecAdd(nc_joiner1_coord, ZDown)>>,
           <<6, nc_joiner2_coord>>,
           <<1, VecAdd(nc_joiner2_coord, ZUp)>>,
           <<1, VecAdd(nc_joiner2_coord, ZDown)>> >>

\* faulty bonds: the first joins the two nitrogens directly
RingAmineBondsDirect(A, first, c1, n1, c2, n2) ==
    [A EXCEPT
       !.bonds = @ \o
         << Bond(n1, n2, 1), Bond(n2, A.atoms[first], 1),
            Bond(A.atoms[first], A.atoms[first + 1], 1),
            Bond(A.atoms[first], A.atoms[first + 2], 1),
            Bond(c1, A.atoms[first + 3], 1), Bond(n2, A.atoms[first + 3], 1),
            Bond(A.atoms[first + 3], A.atoms[first + 4], 1),
            Bond(A.atoms[first + 3], A.atoms[first + 5], 1),
            Bond(c2, A.atoms[first + 6], 1), Bond(n1, A.atoms[first + 6], 1),
            Bond(A.atoms[first + 6], A.atoms[first + 7], 1),
            Bond(A.atoms[first + 6], A.atoms[first + 8], 1) >>,
       !.bonds_made = @ + 12]

\* lines 896-912: the twelve bonds; A is the state with the nine atoms
\* appended, the first of them at index first
RingAmineBonds(A, first, c1, n1, c2, n2) ==
    LET n_joiner == A.atoms[first]
        nh1 == A.atoms[first + 1]
        nh2 == A.atoms[first + 2]
        nc_joiner1 == A.atoms[first + 3]
        nc1h1 == A.atoms[first + 4]
        nc1h2 == A.atoms[first + 5]
        nc_joiner2 == A.atoms[first + 6]
        nc2h1 == A.atoms[first + 7]
        nc2h2 == A.atoms[first + 8]
    IN  [A EXCEPT
           !.bonds = @ \o
             << Bond(n1, n_joiner, 1), Bond(n2, n_joiner, 1),
                Bond(n_joiner, nh1, 1), Bond(n_joiner, nh2, 1),
                Bond(c1, nc_joiner1, 1), Bond(n2, nc_joiner1, 1),
                Bond(nc_joiner1, nc1h1, 1), Bond(nc_joiner1, nc1h2, 1),
                Bond(c2, nc_joiner2, 1), Bond(n1, nc_joiner2, 1),
                Bond(nc_joiner2, nc2h1, 1), Bond(nc_joiner2, nc2h2, 1) >>,
           !.bonds_made = @ + 12]

\* lines 849-912, once c1, n1, c2 and n2 are found: the coordinates are
\* read, the atoms appended and the bonds made
RingAmineJoin(S, c1, n1, c2, n2) ==
    IF \E a \in {c1, n1, c2, n2} : ~RowExists(S, a.id)
    THEN Raise(S, "IndexError")
    ELSE RingAmineBonds(
             AppendNewAtoms(S, RingAmineNewAtoms(
                                   get_atom_coords(S, <<c1, n1, c2, n2>>))),
             Len(S.atoms) + 1, c1, n1, c2, n2)

\* Reactor._ring_amine_with_ring_amine(fg1, fg2)
ring_amine_with_ring_amine(S, i1, i2) ==
    LET fg1 == S.func_groups[i1]
        fg2 == S.func_groups[i2]
    IN  IF \/ FirstWith(fg1.bonders, 6) = <<>>
           \/ FirstWith(fg1.bonders, 7) = <<>>
           \/ FirstWith(fg2.bonders, 6) = <<>>
           \/ FirstWith(fg2.bonders, 7) = <<>>
        THEN Raise(S, "StopIteration")
        ELSE RingAmineJoin(S, FirstWith(fg1.bonders, 6)[1],
                              FirstWith(fg1.bonders, 7)[1],
                              FirstWith(fg2.bonders, 6)[1],
                              FirstWith(fg2.bonders, 7)[1])

\* self._custom_reactions[reaction_key](self, *fgs): a key of the table
\* counts two names, so fgs holds two groups
CallCustom(procedure, S, fgs) ==
    CASE procedure = "_boronic_acid_with_diol" ->
             boronic_acid_with_diol(S, fgs[1], fgs[2])
      [] procedure = "_diol_with_dihalogen" ->
             diol_with_dihalogen(S, fgs[1], fgs[2])
      [] procedure = "_ring_amine_with_ring_amine" ->
             ring_amine_with_ring_amine(S, fgs[1], fgs[2])

----------------------------------------------------------------------------
(* add_reaction, add_periodic_reaction and finalize. *)

\* an add_reaction that stages the deleters before it looks for a custom
\* procedure, as add_periodic_reaction does
add_reaction_stages_first(S, fgs) ==
    IF InTable(custom_reactions, ReactionKey(Names(S, fgs)))
    THEN CallCustom(TableAt(custom_reactions, ReactionKey(Names(S, fgs))),
                    StageLoop(S, fgs), fgs)
    ELSE DefaultBond(StageLoop(S, fgs), fgs, ReactionKey(Names(S, fgs)))

\* Reactor.add_reaction(*fgs)
add_reaction(S, fgs) ==
    LET reaction_key == ReactionKey(Names(S, fgs))
    IN  IF InTable(custom_reactions, reaction_key)
        THEN CallCustom(TableAt(custom_reactions, reaction_key), S, fgs)
        ELSE DefaultBond(StageLoop(S, fgs), fgs, reaction_key)

\* an add_periodic_reaction that looks for its procedure in
\* _custom_reactions as well
add_periodic_reaction_any_registry(S, direction, fgs) ==
    IF InTable(periodic_custom_reactions \cup custom_reactions,
               ReactionKey(Names(S, fgs)))
    THEN CallCustom(TableAt(periodic_custom_reactions \cup custom_reactions,
                            ReactionKey(Names(S, fgs))),
                    PeriodicStageLoop(S, fgs), fgs)
    ELSE DefaultPeriodicBond(PeriodicStageLoop(S, fgs), direction, fgs,
                             ReactionKey(Names(S, fgs)))

\* Reactor.add_periodic_reaction(direction, *fgs)
add_periodic_reaction(S, direction, fgs) ==
    LET S1 == PeriodicStageLoop(S, fgs)
        reaction_key == ReactionKey(Names(S1, fgs))
    IN  IF InTable(periodic_custom_reactions, reaction_key)
        THEN CallCustom(TableAt(periodic_custom_reactions, reaction_key),
                        S1, fgs)
        ELSE DefaultPeriodicBond(S1, direction, fgs, reaction_key)

\* evaluating  bond.atom1.id not in ids and bond.atom2.id not in ids  on a
\* bond whose atom1 or atom2 is a bare integer raises AttributeError; atom2
\* is looked at only when atom1 passes
BondTestRaises(S, bond) ==
    \/ ~HasId(bond.atom1)
    \/ bond.atom1.id \notin S.deleter_ids /\ ~HasId(bond.atom2)

\* a faulty filter that looks at atom1 alone
KeptBondsAtom1Only(S) ==
    LET Keep(bond) == bond.atom1.id \notin S.deleter_ids
    IN  SelectSeq(S.bonds, Keep)

KeptBonds(S) ==
    LET Keep(bond) == /\ bond.atom1.id \notin S.deleter_ids
                      /\ bond.atom2.id \notin S.deleter_ids
    IN  SelectSeq(S.bonds, Keep)

\* a faulty return: the number of bonds the molecule is left with
finalize_return_bond_count(S) == Len(S.bonds)

\* return self._bonds_made
finalize_return(S) == S.bonds_made

\* a faulty finalize that forgets what was staged once it is applied
finalize_clears_staged(S) ==
    LET S1 == [S EXCEPT !.atoms = NotStaged(S, @)]
    IN  IF \E k \in 1..Len(S1.bonds) : BondTestRaises(S1, S1.bonds[k])
        THEN Raise(S1, "AttributeError")
        ELSE [S1 EXCEPT
                !.bonds = KeptBonds(S1),
                !.position_matrix = KeptRows(@, 0, S1.deleter_ids),
                !.deleter_ids = {}]

\* a finalize that gives the atoms it keeps the ids of their new places
finalize_renumbers(S) ==
    IF \E k \in 1..Len(S.bonds) :
           BondTestRaises([S EXCEPT !.atoms = NotStaged(S, @)], S.bonds[k])
    THEN Raise([S EXCEPT !.atoms = NotStaged(S, @)], "AttributeError")
    ELSE [S EXCEPT
            !.atoms = [k \in 1..Len(NotStaged(S, S.atoms)) |->
                          Atom(k - 1, NotStaged(S, S.atoms)[k].atomic_number)],
            !.bonds = KeptBonds(S),
            !.position_matrix = KeptRows(@, 0, S.deleter_ids)]

\* Reactor.finalize(): the state it leaves
finalize(S) ==
    LET S1 == [S EXCEPT !.atoms = NotStaged(S, @)]
    IN  IF \E k \in 1..Len(S1.bonds) : BondTestRaises(S1, S1.bonds[k])
        THEN Raise(S1, "AttributeError")
        ELSE [S1 EXCEPT
                !.bonds = KeptBonds(S1),
                !.position_matrix = KeptRows(@, 0, S1.deleter_ids)]

----------------------------------------------------------------------------
(* The molecules a Reactor is created on.  Each is what the topology      *)
(* hands over: atoms whose ids are their indices, the bonds of the        *)
(* building blocks, one row of the position matrix per atom, and the      *)
(* functional groups as FGType.get_functional_groups builds them from the *)
(* entries of fg_types (atoms in the order of fg_smarts, bonders and      *)
(* deleters rule by rule).                                                *)

MkAtoms(zs) == [i \in 1..Len(zs) |-> Atom(i - 1, zs[i])]

AtomsAt(mol_atoms, ids) == [k \in 1..Len(ids) |-> mol_atoms[ids[k] + 1]]

MkBonds(mol_atoms, triples) ==
    [k \in 1..Len(triples) |->
        Bond(mol_atoms[triples[k][1] + 1], mol_atoms[triples[k][2] + 1],
             triples[k][3])]

MkFg(mol_atoms, atom_ids, bonder_ids, deleter_id_seq, fg_type) ==
    FunctionalGroup(AtomsAt(mol_atoms, atom_ids),
                    AtomsAt(mol_atoms, bonder_ids),
                    AtomsAt(mol_atoms, deleter_id_seq), fg_type)

\* atom i at (2 i, 0, 0)
RowsInLine(n) == [i \in 1..n |-> <<8 * (i - 1), 0, 0>>]

\* C-NH2 and C-NH2
AmineAmine ==
    LET a == MkAtoms(<<6, 7, 1, 1, 6, 7, 1, 1>>)
    IN  [atoms |-> a,
         bonds |-> MkBonds(a, << <<0, 1, 1>>, <<1, 2, 1>>, <<1, 3, 1>>,
                                 <<4, 5, 1>>, <<5, 6, 1>>, <<5, 7, 1>> >>),
         position_matrix |-> RowsInLine(8),
         func_groups |->
            << MkFg(a, <<1, 2, 3>>, <<1>>, <<2, 3>>, "amine"),
               MkFg(a, <<5, 6, 7>>, <<5>>, <<6, 7>>, "amine") >>]

\* C-NH2 and C-CHO
AmineAldehyde ==
    LET a == MkAtoms(<<6, 7, 1, 1, 6, 6, 8, 1>>)
    IN  [atoms |-> a,
         bonds |-> MkBonds(a, << <<0, 1, 1>>, <<1, 2, 1>>, <<1, 3, 1>>,
                                 <<4, 5, 1>>, <<5, 6, 2>>, <<5, 7, 1>> >>),
         position_matrix |-> RowsInLine(8),
         func_groups |->
            << MkFg(a, <<1, 2, 3>>, <<1>>, <<2, 3>>, "amine"),
               MkFg(a, <<5, 6, 7>>, <<5>>, <<6>>, "aldehyde") >>]

\* C-B(OH)2 and HO-C-C-OH
BoronicAcidDiol ==
    LET a == MkAtoms(<<6, 5, 8, 1, 8, 1, 1, 8, 6, 6, 8, 1>>)
    IN  [atoms |-> a,
         bonds |-> MkBonds(a, << <<0, 1, 1>>, <<1, 2, 1>>, <<2, 3, 1>>,
                                 <<1, 4, 1>>, <<4, 5, 1>>, <<6, 7, 1>>,
                                 <<7, 8, 1>>, <<8, 9, 1>>, <<9, 10, 1>>,
                                 <<10, 11, 1>> >>),
         position_matrix |-> RowsInLine(12),
         func_groups |->
            << MkFg(a, <<1, 2, 3, 4, 5>>, <<1>>, <<2, 4, 3, 5>>,
                    "boronic_acid"),
               MkFg(a, <<6, 7, 8, 9, 10, 11>>, <<7, 10>>, <<6, 11>>,
                    "diol") >>]

\* HO-C-C-OH and Br-C-C-Br, the carbons of the second over the oxygens of
\* the first
DiolDibromine ==
    LET a == MkAtoms(<<1, 8, 6, 6, 8, 1, 35, 6, 6, 35>>)
    IN  [atoms |-> a,
         bonds |-> MkBonds(a, << <<0, 1, 1>>, <<1, 2, 1>>, <<2, 3, 1>>,
                                 <<3, 4, 1>>, <<4, 5, 1>>, <<6, 7, 1>>,
                                 <<7, 8, 1>>, <<8, 9, 1>> >>),
         position_matrix |->
            << <<-4, 0, 0>>, <<0, 0, 0>>, <<4, -4, 0>>, <<8, -4, 0>>,
               <<12, 0, 0>>, <<16, 0, 0>>, <<-4, 8, 0>>, <<0, 4, 0>>,
               <<8, 4, 0>>, <<16, 8, 0>> >>,
         func_groups |->
            << MkFg(a, <<0, 1, 2, 3, 4, 5>>, <<1, 4>>, <<0, 5>>, "diol"),
               MkFg(a, <<6, 7, 8, 9>>, <<7, 8>>, <<6, 9>>, "dibromine") >>]

\* the same, with a dibromine group that has one bonder only
DiolDibromineOneBonder ==
    [DiolDibromine EXCEPT
        !.func_groups[2] =
            MkFg(DiolDibromine.atoms, <<6, 7, 8, 9>>, <<7>>, <<6, 9>>,
                 "dibromine")]

\* two ring amines, H2N-C~C(H)~C(ring), the second a plane above the first
RingAmines ==
    LET a == MkAtoms(<<7, 1, 1, 6, 6, 1, 6, 7, 1, 1, 6, 6, 1, 6>>)
    IN  [atoms |-> a,
         bonds |-> MkBonds(a, << <<0, 1, 1>>, <<0, 2, 1>>, <<0, 3, 1>>,
                                 <<3, 4, 2>>, <<4, 5, 1>>, <<4, 6, 1>>,
                                 <<7, 8, 1>>, <<7, 9, 1>>, <<7, 10, 1>>,
                                 <<10, 11, 2>>, <<11, 12, 1>>,
                                 <<11, 13, 1>> >>),
         position_matrix |->
            [i \in 1..14 |->
                IF i <= 7 THEN <<8 * (i - 1), 0, 0>>
                ELSE <<8 * (i - 8), 16, 8>>],
         func_groups |->
            << MkFg(a, <<0, 1, 2, 3, 4, 5, 6>>, <<0, 4>>, <<1, 2, 5>>,
                    "ring_amine"),
               MkFg(a, <<7, 8, 9, 10, 11, 12, 13>>, <<7, 11>>, <<8, 9, 12>>,
                    "ring_amine") >>]

\* O=C-NH2, found both as an amide and as an amine (the nitrogen is a
\* deleter of the first and the bonder of the second), and C-NH2
AmideAmineOverlap ==
    LET a == MkAtoms(<<6, 8, 7, 1, 1, 6, 7, 1, 1>>)
    IN  [atoms |-> a,
         bonds |-> MkBonds(a, << <<0, 1, 2>>, <<0, 2, 1>>, <<2, 3, 1>>,
                                 <<2, 4, 1>>, <<5, 6, 1>>, <<6, 7, 1>>,
                                 <<6, 8, 1>> >>),
         position_matrix |-> RowsInLine(9),
         func_groups |->
            << MkFg(a, <<0, 1, 2, 3, 4>>, <<0>>, <<2, 3, 4>>, "amide"),
               MkFg(a, <<2, 3, 4>>, <<2>>, <<3, 4>>, "amine"),
               MkFg(a, <<6, 7, 8>>, <<6>>, <<7, 8>>, "amine") >>]

\* C-NH2, C-CHO, C-NH2 and C-CHO: four groups, no atom in two of them
AminesAldehydes ==
    LET a == MkAtoms(<<6, 7, 1, 1, 6, 6, 8, 1, 6, 7, 1, 1, 6, 6, 8, 1>>)
    IN  [atoms |-> a,
         bonds |-> MkBonds(a, << <<0, 1, 1>>, <<1, 2, 1>>, <<1, 3, 1>>,
                                 <<4, 5, 1>>, <<5, 6, 2>>, <<5, 7, 1>>,
                                 <<8, 9, 1>>, <<9, 10, 1>>, <<9, 11, 1>>,
                                 <<12, 13, 1>>, <<13, 14, 2>>,
                                 <<13, 15, 1>> >>),
         position_matrix |-> RowsInLine(16),
         func_groups |->
            << MkFg(a, <<1, 2, 3>>, <<1>>, <<2, 3>>, "amine"),
               MkFg(a, <<5, 6, 7>>, <<5>>, <<6>>, "aldehyde"),
               MkFg(a, <<9, 10, 11>>, <<9>>, <<10, 11>>, "amine"),
               MkFg(a, <<13, 14, 15>>, <<13>>, <<14>>, "aldehyde") >>]

ScenarioNames ==
    {"amine_amine", "amine_aldehyde", "boronic_acid_diol", "diol_dibromine",
     "diol_dibromine_one_bonder", "ring_amines", "amide_amine_overlap"}

Scenario(name) ==
    CASE name = "amine_amine" -> AmineAmine
      [] name = "amine_aldehyde" -> AmineAldehyde
      [] name = "boronic_acid_diol" -> BoronicAcidDiol
      [] name = "diol_dibromine" -> DiolDibromine
      [] name = "diol_dibromine_one_bonder" -> DiolDibromineOneBonder
      [] name = "ring_amines" -> RingAmines
      [] name = "amide_amine_overlap" -> AmideAmineOverlap
      [] name = "amines_aldehydes" -> AminesAldehydes

\* the direction of a periodic bond
Directions == {<<1, 0, 0>>, <<0, 0, -1>>}

\* the argument lists *fgs the model passes: one group or two
FgArgs(S) == SeqsUpTo(1..Len(S.func_groups), 2) \ {<<>>}

----------------------------------------------------------------------------
(* The state machine: a Reactor is created on a molecule, and reactions   *)
(* and finalize are called on it.  A call that raises ends the use of     *)
(* the Reactor: nothing in it catches the exception.                      *)

\* the state the operations run in
Cur ==
    [atoms |-> atoms, bonds |-> bonds, position_matrix |-> position_matrix,
     func_groups |-> func_groups, deleter_ids |-> deleter_ids,
     bonds_made |-> bonds_made, exc |-> ""]

\* the last call on the Reactor was finalize, and it returned
FinalizeDone == last.op = "finalize" /\ exc = ""

\* what add_reaction does for these groups: the name of the custom
\* procedure, or "default"
Kind(S, fgs) ==
    TableGet(custom_reactions, ReactionKey(Names(S, fgs)), "default")

\* Reactor.__init__(mol)
ReactorInit(name) ==
    /\ scenario = name
    /\ atoms = Scenario(name).atoms
    /\ bonds = Scenario(name).bonds
    /\ position_matrix = Scenario(name).position_matrix
    /\ func_groups = Scenario(name).func_groups
    /\ deleter_ids = {}
    /\ bonds_made = 0
    /\ exc = ""
    /\ last = [op |-> "__init__", fgs |-> <<>>, direction |-> <<>>,
               kind |-> ""]
    /\ log = <<>>
    /\ returned = <<>>
    /\ finalize_calls = 0
    /\ ever_staged = {}

KeyInit ==
    /\ names1 = <<>>
    /\ names2 = <<>>
    /\ key1 = ReactionKey(<<>>)
    /\ key2 = ReactionKey(<<>>)

MatcherInit == calls = <<>>

\* a call of ConstructedMolecule.__init__ or add_conformer that has reached
\* topology.construct: which of the two, the bb_conformers it was given
\* (None or a list with an id for each building block), how far it is,
\* and what leaves it when it raises
Construction(entry, bb_conformers) ==
    [entry |-> entry, bb_conformers |-> bb_conformers,
     phase |-> "constructing", error |-> "", cause |-> "", context |-> ""]

\* the Reactor is run by topology.construct for
\* ConstructedMolecule(building_blocks, topology, bb_conformers)
ConstructInit == cm = Construction("__init__", "list")

\* no ConstructedMolecule was asked for yet: no instance, an empty _cache
MoleculeInit ==
    /\ objs = <<>>
    /\ cache = {}
    /\ doc = <<>>
    /\ mlast = [op |-> "none", self |-> 0, key |-> <<{}, <<>>>>,
                use_cache |-> FALSE,
                error |-> "", cause |-> "", result |-> 0, new_id |-> -1,
                constructed |-> FALSE, objs |-> <<>>, cache |-> {}]
    /\ mcalls = 0

\* no key was generated yet
CKeyInit == requests = <<>>

\* Reactor(mol): the fields of a new Reactor and the molecule it is given
ReactorOn(name) ==
    [atoms |-> Scenario(name).atoms, bonds |-> Scenario(name).bonds,
     position_matrix |-> Scenario(name).position_matrix,
     func_groups |-> Scenario(name).func_groups,
     deleter_ids |-> {}, bonds_made |-> 0, exc |-> ""]

\* the molecules of the two Reactors
PairScenario == <<"amine_amine", "amide_amine_overlap">>

\* the class attributes of Reactor (lines 598-605 and 918-938)
Registries ==
    [bond_orders |-> bond_orders, custom_reactions |-> custom_reactions,
     periodic_custom_reactions |-> periodic_custom_reactions]

\* two Reactors, each created on a molecule of its own
PairInit ==
    /\ rs = [r \in 1..2 |-> ReactorOn(PairScenario[r])]
    /\ hist = [r \in 1..2 |-> <<>>]
    /\ registries = Registries

\* no pair of Reactors has been created
NoPairInit ==
    /\ rs = <<>>
    /\ hist = <<>>
    /\ registries = Registries

AssemblyInit ==
    /\ MoleculeInit
    /\ CKeyInit
    /\ NoPairInit

Init ==
    /\ \E name \in ScenarioNames : ReactorInit(name)
    /\ KeyInit
    /\ MatcherInit
    /\ ConstructInit
    /\ AssemblyInit

\* the state after a call that left R
Becomes(R) ==
    /\ atoms' = R.atoms
    /\ bonds' = R.bonds
    /\ position_matrix' = R.position_matrix
    /\ func_groups' = R.func_groups
    /\ deleter_ids' = R.deleter_ids
    /\ bonds_made' = R.bonds_made
    /\ exc' = R.exc
    /\ ever_staged' = ever_staged \cup R.deleter_ids
    /\ UNCHANGED scenario

\* what the log keeps of a reaction call that returned: the call, and
\* by how much it raised _bonds_made
LogEntry(op, kind, fgs, direction, R) ==
    [op |-> op, kind |-> kind, fgs |-> fgs, direction |-> direction,
     made |-> R.bonds_made - bonds_made]

AddReaction ==
    /\ exc = ""
    /\ Len(log) < MaxReactions
    /\ \E fgs \in FgArgs(Cur) :
         \E R \in {add_reaction(Cur, fgs)} :
             /\ Becomes(R)
             /\ last' = [op |-> "add_reaction", fgs |-> fgs,
                         direction |-> <<>>, kind |-> Kind(Cur, fgs)]
             /\ log' = IF R.exc = ""
                       THEN Append(log, LogEntry("add_reaction",
                                       Kind(Cur, fgs), fgs, <<>>, R))
                       ELSE log
    /\ UNCHANGED <<returned, finalize_calls>>
    /\ UNCHANGED key_vars
    /\ UNCHANGED assembly_vars
    /\ UNCHANGED matcher_vars
    /\ UNCHANGED construct_vars

AddPeriodicReaction ==
    /\ exc = ""
    /\ Len(log) < MaxReactions
    /\ \E fgs \in FgArgs(Cur), direction \in Directions :
         \E R \in {add_periodic_reaction(Cur, direction, fgs)} :
             /\ Becomes(R)
             /\ last' = [op |-> "add_periodic_reaction", fgs |-> fgs,
                         direction |-> direction, kind |-> "default"]
             /\ log' = IF R.exc = ""
                       THEN Append(log, LogEntry("add_periodic_reaction",
                                       "default", fgs, direction, R))
                       ELSE log
    /\ UNCHANGED <<returned, finalize_calls>>
    /\ UNCHANGED key_vars
    /\ UNCHANGED assembly_vars
    /\ UNCHANGED matcher_vars
    /\ UNCHANGED construct_vars

Finalize ==
    /\ exc = ""
    /\ finalize_calls < MaxFinalize
    /\ \E R \in {finalize(Cur)} :
           /\ Becomes(R)
           /\ returned' = IF R.exc = "" THEN <<finalize_return(R)>>
                          ELSE returned
           /\ finalize_calls' = IF R.exc = "" THEN finalize_calls + 1
                                ELSE finalize_calls
    /\ last' = [op |-> "finalize", fgs |-> <<>>, direction |-> <<>>,
                kind |-> ""]
    /\ UNCHANGED log
    /\ UNCHANGED key_vars
    /\ UNCHANGED assembly_vars
    /\ UNCHANGED matcher_vars
    /\ UNCHANGED construct_vars

Next == AddReaction \/ AddPeriodicReaction \/ Finalize

Spec == Init /\ [][Next]_vars

----------------------------------------------------------------------------
(* _ReactionKey on its own: two lists of names grow, and the key of each  *)
(* is built anew.                                                          *)

\* the names the lists draw from
KeyNames == {"amine", "aldehyde", "diol"}

GiveName1 ==
    /\ Len(names1) < MaxNames
    /\ \E n \in KeyNames :
         /\ names1' = Append(names1, n)
         /\ key1' = ReactionKey(names1')
    /\ UNCHANGED <<names2, key2>>
    /\ UNCHANGED assembly_vars
    /\ UNCHANGED reactor_vars
    /\ UNCHANGED matcher_vars
    /\ UNCHANGED construct_vars

GiveName2 ==
    /\ Len(names2) < MaxNames
    /\ \E n \in KeyNames :
         /\ names2' = Append(names2, n)
         /\ key2' = ReactionKey(names2')
    /\ UNCHANGED <<names1, key1>>
    /\ UNCHANGED assembly_vars
    /\ UNCHANGED reactor_vars
    /\ UNCHANGED matcher_vars
    /\ UNCHANGED construct_vars

KeyNext == GiveName1 \/ GiveName2

\* the keys are built beside a Reactor that is left alone
KeySpecInit ==
    /\ ReactorInit("amine_amine")
    /\ KeyInit
    /\ MatcherInit
    /\ ConstructInit
    /\ AssemblyInit

KeySpec == KeySpecInit /\ [][KeyNext]_vars

----------------------------------------------------------------------------
(* ConstructedMolecule.__init__ and ConstructedMolecule.add_conformer     *)
(* around topology.construct, which makes the Reactor calls and ends with *)
(* finalize.                                                               *)

\* the molecules constructed
ConstructScenarios == {"amine_amine", "diol_dibromine"}

\* lines 251-252: __init__ replaces None by a list of -1; add_conformer
\* uses bb_conformers as it was given
BbConformersUsed(c) ==
    IF c.entry = "__init__" /\ c.bb_conformers = "None" THEN "list"
    ELSE c.bb_conformers

\* a step of topology.construct: a call on the Reactor
ConstructStep ==
    /\ cm.phase = "constructing"
    /\ \/ AddReaction
       \/ AddPeriodicReaction
       \/ Finalize

\* topology.construct has called finalize and returns; the call goes on
\* after the try statement
ConstructReturns ==
    /\ cm.phase = "constructing"
    /\ FinalizeDone
    /\ cm' = [cm EXCEPT !.phase = "returned"]
    /\ UNCHANGED reactor_vars
    /\ UNCHANGED key_vars
    /\ UNCHANGED assembly_vars
    /\ UNCHANGED matcher_vars

\* except Exception as ex (lines 263-285 and 323-346): the message is put
\* together from the building blocks, reading bb_conformers[i] for each,
\* and ConstructionError(errormsg) is raised from ex.  There is at least
\* one building block, so that bb_conformers[i] is evaluated; when
\* bb_conformers is None it raises TypeError inside the handler, and that
\* is the exception which leaves the call, with ex as its context.
ConstructRaises ==
    /\ cm.phase = "constructing"
    /\ exc # ""
    /\ cm' = IF BbConformersUsed(cm) = "None"
             THEN [cm EXCEPT !.phase = "raised", !.error = "TypeError",
                             !.context = exc]
             ELSE [cm EXCEPT !.phase = "raised",
                             !.error = "ConstructionError",
                             !.cause = exc, !.context = exc]
    /\ UNCHANGED reactor_vars
    /\ UNCHANGED key_vars
    /\ UNCHANGED assembly_vars
    /\ UNCHANGED matcher_vars

ConstructNext == ConstructStep \/ ConstructReturns \/ ConstructRaises

ConstructSpecInit ==
    /\ \E name \in ConstructScenarios : ReactorInit(name)
    /\ KeyInit
    /\ MatcherInit
    /\ \E entry \in {"__init__", "add_conformer"} :
         \E bb_conformers \in {"None", "list"} :
            cm = Construction(entry, bb_conformers)
    /\ AssemblyInit

ConstructSpec == ConstructSpecInit /\ [][ConstructNext]_vars

----------------------------------------------------------------------------
(* FGType.get_functional_groups(mol) on its own: functional groups are    *)
(* asked for on a molecule.                                                *)

\* the names of fg_types
RegistryNames ==
    {"amine", "aldehyde", "carboxylic_acid", "amide", "thioacid", "alcohol",
     "thiol", "bromine", "iodine", "alkyne", "terminal_alkene",
     "boronic_acid", "amine2", "secondary_amine", "diol", "difluorene",
     "dibromine", "alkyne2", "ring_amine"}

\* the names a caller asks for: three of the registry and one that is not
\* in it
RequestNames == {"amine", "amide", "aldehyde", "carbene"}

\* FGType.get_functional_groups(self, mol).  Its first statement,
\* fg_names = sorted(fg_names), reads fg_names, which is a local of the
\* function (it is assigned there) and not a parameter: the read raises
\* UnboundLocalError before anything is looked up, matched or changed.
\* The call has no way to be given names; whatever the caller wants does
\* not reach it.
get_functional_groups(self, mol) ==
    [exc |-> "UnboundLocalError", func_groups |-> <<>>, mol |-> mol]

\* the caller wants the groups named fg_names in the molecule
GetFunctionalGroups ==
    /\ Len(calls) < MaxCalls
    /\ \E fg_names \in SeqsUpTo(RequestNames, MaxRequested) :
         LET R == get_functional_groups("fg_type",
                      [atoms |-> atoms, bonds |-> bonds])
         IN  /\ calls' = Append(calls, [fg_names |-> fg_names,
                                        exc |-> R.exc,
                                        func_groups |-> R.func_groups])
             /\ atoms' = R.mol.atoms
             /\ bonds' = R.mol.bonds
    /\ UNCHANGED <<scenario, position_matrix, func_groups, deleter_ids,
                   bonds_made, exc, last, log, returned, finalize_calls,
                   ever_staged>>
    /\ UNCHANGED key_vars
    /\ UNCHANGED assembly_vars
    /\ UNCHANGED construct_vars

MatcherNext == GetFunctionalGroups

\* the molecule asked is O=C(NH2) and C-NH2
MatcherSpecInit ==
    /\ ReactorInit("amide_amine_overlap")
    /\ KeyInit
    /\ MatcherInit
    /\ ConstructInit
    /\ AssemblyInit

MatcherSpec == MatcherSpecInit /\ [][MatcherNext]_vars

----------------------------------------------------------------------------
(* ConstructedMolecule as an object: instances are made by calling the    *)
(* class, get conformers added, are turned into documents and are loaded  *)
(* from documents.  topology.construct runs to its end within the call    *)
(* that makes it: nothing else happens in between.                        *)

\* how many calls are made on ConstructedMolecule
MaxMolCalls == 3

\* how many building blocks a key is generated from
MaxBlocks == 2

\* a building block: the object, and its key
BuildingBlock(name, key) == [name |-> name, key |-> key]

\* two building blocks, and a third which has the key of the first
BuildingBlocks ==
    {BuildingBlock("bb1", "k1"), BuildingBlock("bb2", "k2"),
     BuildingBlock("bb3", "k1")}

\* a topology: its class, its arguments, and the Reactor call it hands
\* the functional groups it joins to
Topology(cls, repeating_unit, reaction) ==
    [cls |-> cls, repeating_unit |-> repeating_unit, reaction |-> reaction]

Topologies ==
    {Topology("Linear", "AB", "add_reaction"),
     Topology("Honeycomb", "AB", "add_periodic_reaction")}

\* repr(topology)
repr_topology(topology) == <<topology.cls, topology.repeating_unit>>

\* bb_conformers: None, or a list of conformer ids
NoneConf == [none |-> TRUE, ids |-> <<>>]

BbConf(ids) == [none |-> FALSE, ids |-> ids]

\* [-1 for _ in range(len(building_blocks))]
DefaultConf(building_blocks) ==
    BbConf([i \in 1..Len(building_blocks) |-> -1])

\* a faulty key made of the building blocks in the order given
generate_key_ordered(building_blocks, topology, bb_conformers, use_cache) ==
    LET bb_keys == [i \in 1..Len(building_blocks) |-> building_blocks[i].key]
    IN  <<bb_keys, repr_topology(topology)>>

\* ConstructedMolecule._generate_key(building_blocks, topology,
\* bb_conformers, use_cache)
generate_key(building_blocks, topology, bb_conformers, use_cache) ==
    LET bb_keys == {building_blocks[i].key : i \in 1..Len(building_blocks)}
    IN  <<bb_keys, repr_topology(topology)>>

\* a call cls._generate_key(*args): the method has four parameters, none
\* with a default
call_generate_key(args) ==
    IF Len(args) # 4 THEN [exc |-> "TypeError", key |-> <<{}, <<>>>>]
    ELSE [exc |-> "",
          key |-> generate_key(args[1], args[2], args[3], args[4])]

\* a functional group that has no id attribute yet
NoId == -1

\* the FunctionalGroup objects topology.construct makes for the molecule
NewFuncGroups(fgs) == [i \in 1..Len(fgs) |-> [id |-> NoId, fg |-> fgs[i]]]

\* the rdkit molecule made from a Reactor's molecule: its graph, and one
\* conformer, of id 0, with the coordinates placed for bb_conformers
NewMol(S, ids) ==
    [graph |-> [atoms |-> S.atoms, bonds |-> S.bonds],
     conformers |-> <<[id |-> 0,
                       coords |-> <<ids, S.position_matrix>>]>>]

\* how many times each building block is placed: two units, given to the
\* building blocks in turn
NumUnits == 2

Placements(building_blocks) ==
    [bb \in Range(building_blocks) |->
        Cardinality({u \in 1..NumUnits :
            building_blocks[((u - 1) % Len(building_blocks)) + 1] = bb})]

\* the steps of topology.construct at which it may raise, "none" if it
\* does not
FailPoints == {"none", "place_mols", "prepare"}

\* the conformer ids topology.construct works with
ConformerIds(mol, bb_conformers) ==
    IF bb_conformers.none THEN DefaultConf(mol.building_blocks).ids
    ELSE bb_conformers.ids

\* place_mols: the combined molecule and its functional groups are put
\* into mol
PlaceMols(mol, ids, S) ==
    [mol EXCEPT !.mol = NewMol(S, ids),
                !.func_groups = NewFuncGroups(S.func_groups),
                !.func_groups_type = "list",
                !.bb_counter = Placements(mol.building_blocks)]

\* the Reactor call the topology makes on the functional groups it joins
React(topology, S) ==
    IF topology.reaction = "add_reaction" THEN add_reaction(S, <<1, 2>>)
    ELSE add_periodic_reaction(S, <<1, 0, 0>>, <<1, 2>>)

FinalizeIfReturned(S) == IF S.exc = "" THEN finalize(S) ELSE S

\* what topology.construct leaves once the Reactor is done with S
Constructed(placed, ids, S) ==
    IF S.exc # ""
    THEN [obj |-> [placed EXCEPT
                     !.func_groups = NewFuncGroups(S.func_groups)],
          exc |-> S.exc]
    ELSE [obj |-> [placed EXCEPT
                     !.func_groups = NewFuncGroups(S.func_groups),
                     !.mol = NewMol(S, ids),
                     !.bonds_made = finalize_return(S)],
          exc |-> ""]

ConstructWith(mol, ids, fail_at) ==
    IF fail_at = "place_mols" THEN [obj |-> mol, exc |-> "ValueError"]
    ELSE IF fail_at = "prepare"
    THEN [obj |-> PlaceMols(mol, ids, ReactorOn("amine_amine")),
          exc |-> "RuntimeError"]
    ELSE Constructed(PlaceMols(mol, ids, ReactorOn("amine_amine")), ids,
             FinalizeIfReturned(React(mol.topology,
                                      ReactorOn("amine_amine"))))

\* topology.construct(mol, bb_conformers): place_mols puts the combined
\* molecule and its functional groups into mol, prepare follows, the
\* functional groups are reacted and finalize gives bonds_made.  It
\* leaves mol as obj and raises exc ("" if it returns).
construct(mol, bb_conformers, fail_at) ==
    ConstructWith(mol, ConformerIds(mol, bb_conformers), fail_at)

\* a faulty numbering that starts at 1
SetIdsFromOne(mol) ==
    [mol EXCEPT
       !.func_groups = [i \in 1..Len(@) |-> [@[i] EXCEPT !.id = i]],
       !.func_groups_type = "tuple"]

\* lines 287-291 and 348-352: self.func_groups = tuple(self.func_groups),
\* and func_group.id = id_ for each
SetIds(mol) ==
    [mol EXCEPT
       !.func_groups = [i \in 1..Len(@) |-> [@[i] EXCEPT !.id = i - 1]],
       !.func_groups_type = "tuple"]

\* the exception that leaves the except clause (lines 263-285 and
\* 323-346): bb_conformers[i] is read for each building block
HandlerRaises(mol, bb_conformers) ==
    IF bb_conformers.none /\ mol.building_blocks # <<>>
    THEN "TypeError" ELSE "ConstructionError"

\* self, before topology.construct has given it its attributes
NewInstance(building_blocks, topology) ==
    [building_blocks |-> building_blocks,
     topology |-> topology,
     key |-> <<{}, <<>>>>,
     mol |-> [graph |-> [atoms |-> <<>>, bonds |-> <<>>],
              conformers |-> <<>>],
     func_groups |-> <<>>,
     func_groups_type |-> "list",
     bonds_made |-> 0,
     bb_counter |-> Placements(<<>>)]

\* lines 257-293: what follows topology.construct in __init__
AfterConstructInInit(R, conf) ==
    IF R.exc # ""
    THEN [obj |-> R.obj, error |-> HandlerRaises(R.obj, conf),
          cause |-> R.exc, new_id |-> -1]
    ELSE [obj |-> SetIds(R.obj), error |-> "", cause |-> "",
          new_id |-> -1]

\* lines 251-252
ConfInInit(building_blocks, bb_conformers) ==
    IF bb_conformers.none THEN DefaultConf(building_blocks)
    ELSE bb_conformers

\* ConstructedMolecule.__init__(building_blocks, topology, bb_conformers,
\* use_cache)
ConstructedMolecule_init(building_blocks, topology, bb_conformers, fail_at) ==
    AfterConstructInInit(
        construct(NewInstance(building_blocks, topology),
                  ConfInInit(building_blocks, bb_conformers), fail_at),
        ConfInInit(building_blocks, bb_conformers))

\* original_mol.AddConformer(new_conf, True): the conformer gets the
\* number of conformers the molecule has as its id
AddConformerAssignId(mol, conf) ==
    [mol EXCEPT
       !.conformers = Append(@, [conf EXCEPT !.id = Len(mol.conformers)])]

\* a faulty add_conformer that keeps the molecule construct has made
KeepConstructed(original_mol, constructed_mol) ==
    AddConformerAssignId(constructed_mol, constructed_mol.conformers[1])

\* lines 354-358: the conformer of the molecule construct has made is
\* added to the original molecule, which is put back
KeepOriginal(original_mol, constructed_mol) ==
    AddConformerAssignId(original_mol, constructed_mol.conformers[1])

\* lines 348-359: the groups are numbered, the new conformer is added to
\* the original molecule and its id is returned
Numbered(original_mol, numbered) ==
    [obj |-> [numbered EXCEPT
                !.mol = KeepOriginal(original_mol, numbered.mol)],
     error |-> "", cause |-> "", new_id |-> Len(original_mol.conformers)]

\* lines 323-359: what follows topology.construct in add_conformer
AfterConstructInAddConformer(original_mol, R, bb_conformers) ==
    IF R.exc # ""
    THEN [obj |-> [R.obj EXCEPT !.mol = original_mol],
          error |-> HandlerRaises(R.obj, bb_conformers),
          cause |-> R.exc, new_id |-> -1]
    ELSE Numbered(original_mol, SetIds(R.obj))

\* ConstructedMolecule.add_conformer(bb_conformers)
add_conformer(self, bb_conformers, fail_at) ==
    AfterConstructInAddConformer(self.mol,
        construct(self, bb_conformers, fail_at), bb_conformers)

\* bb.json() and Molecule.from_dict(json)
bb_json(bb) == <<"BuildingBlock", bb.name, bb.key>>

bb_from_dict(json) == BuildingBlock(json[2], json[3])

\* repr(self.func_groups): FunctionalGroup.__repr__ gives the atoms, the
\* bonders, the deleters and the name of the type
repr_func_groups(groups) ==
    [i \in 1..Len(groups) |->
        <<"FunctionalGroup", groups[i].fg.atoms, groups[i].fg.bonders,
          groups[i].fg.deleters, groups[i].fg.fg_type>>]

\* ConstructedMolecule.to_json()
to_json(self) ==
    [bb_counter |-> {<<bb_json(bb), self.bb_counter[bb]>> :
                        bb \in DOMAIN self.bb_counter},
     bonds_made |-> self.bonds_made,
     class |-> "ConstructedMolecule",
     conformers |-> [i \in 1..Len(self.mol.conformers) |->
                        <<self.mol.conformers[i].id,
                          <<self.mol.graph, self.mol.conformers[i].coords>>>>],
     building_blocks |-> [i \in 1..Len(self.building_blocks) |->
                             bb_json(self.building_blocks[i])],
     topology |-> repr_topology(self.topology),
     func_groups |-> repr_func_groups(self.func_groups)]

InCache(c, key) == \E e \in c : e[1] = key

CacheAt(c, key) == (CHOOSE e \in c : e[1] = key)[2]

\* cls._cache[key] = obj
CachePut(c, key, obj) == {e \in c : e[1] # key} \cup {<<key, obj>>}

\* the building blocks restored from bb_counter, as list(bb_counter)
RestoredBlocks(json_dict) ==
    LET bbs == {bb_from_dict(e[1]) : e \in json_dict.bb_counter}
    IN  CHOOSE l \in [1..Cardinality(bbs) -> bbs] : Range(l) = bbs

\* eval(d.pop('topology'), topologies.__dict__)
RestoredTopology(json_dict) ==
    CHOOSE t \in Topologies : repr_topology(t) = json_dict.topology

\* lines 502-530: the instance put together from the document
Restored(json_dict, bbs, topology, key) ==
    [building_blocks |-> bbs,
     topology |-> topology,
     key |-> key,
     mol |-> [graph |-> json_dict.conformers[1][2][1],
              conformers |->
                 [i \in 1..Len(json_dict.conformers) |->
                     [id |-> json_dict.conformers[i][1],
                      coords |-> json_dict.conformers[i][2][2]]]],
     func_groups |->
        [i \in 1..Len(json_dict.func_groups) |->
            [id |-> NoId,
             fg |-> FunctionalGroup(json_dict.func_groups[i][2],
                                    json_dict.func_groups[i][3],
                                    json_dict.func_groups[i][4],
                                    json_dict.func_groups[i][5])]],
     func_groups_type |-> "tuple",
     bonds_made |-> json_dict.bonds_made,
     bb_counter |-> [bb \in Range(bbs) |->
                        (CHOOSE e \in json_dict.bb_counter :
                            bb_from_dict(e[1]) = bb)[2]]]

\* lines 498-537, once the key was asked for
InitFromJsonWithKey(json_dict, use_cache, instances, c, bbs, topology, K) ==
    IF K.exc # ""
    THEN [error |-> K.exc, result |-> 0, instances |-> instances,
          cache |-> c]
    ELSE IF InCache(c, K.key) /\ use_cache
    THEN [error |-> "", result |-> CacheAt(c, K.key),
          instances |-> instances, cache |-> c]
    ELSE [error |-> "", result |-> Len(instances) + 1,
          instances |-> Append(instances,
                               Restored(json_dict, bbs, topology, K.key)),
          cache |-> IF use_cache
                    THEN CachePut(c, K.key, Len(instances) + 1) ELSE c]

\* ConstructedMolecule._init_from_json(json_dict, use_cache), for the
\* instances and the cache there are: the building blocks are restored
\* from bb_counter, the topology from its repr, and the key is asked for
\* with cls._generate_key(bbs, topology) (line 498)
init_from_json(json_dict, use_cache, instances, c) ==
    InitFromJsonWithKey(json_dict, use_cache, instances, c,
        RestoredBlocks(json_dict), RestoredTopology(json_dict),
        call_generate_key(<<RestoredBlocks(json_dict),
                            RestoredTopology(json_dict)>>))

\* the building blocks and conformer ids instances are asked for with
MolBbLists ==
    {<<BuildingBlock("bb1", "k1"), BuildingBlock("bb2", "k2")>>,
     <<BuildingBlock("bb2", "k2"), BuildingBlock("bb1", "k1")>>}

OtherConf(building_blocks) == BbConf([i \in 1..Len(building_blocks) |-> 1])

Called(op, self, key, use_cache, R, result, constructed) ==
    [op |-> op, self |-> self, key |-> key, use_cache |-> use_cache,
     error |-> R.error,
     cause |-> R.cause, result |-> result, new_id |-> R.new_id,
     constructed |-> constructed, objs |-> objs, cache |-> cache]

NoError == [error |-> "", cause |-> "", new_id |-> -1]

\* the call ConstructedMolecule(...) for a key and what __init__ gives
ConstructCall(use_cache, key, R) ==
    IF use_cache /\ InCache(cache, key)
    THEN /\ mlast' = Called("__init__", 0, key, use_cache, NoError,
                            CacheAt(cache, key), FALSE)
         /\ UNCHANGED <<objs, cache>>
    ELSE IF R.error # ""
    THEN /\ mlast' = Called("__init__", 0, key, use_cache, R, 0, TRUE)
         /\ UNCHANGED <<objs, cache>>
    ELSE /\ objs' = Append(objs, [R.obj EXCEPT !.key = key])
         /\ cache' = IF use_cache THEN CachePut(cache, key, Len(objs) + 1)
                     ELSE cache
         /\ mlast' = Called("__init__", 0, key, use_cache, R,
                            Len(objs) + 1, TRUE)

\* ConstructedMolecule(building_blocks, topology, bb_conformers,
\* use_cache): the key is generated from the arguments; a cached instance
\* is returned if use_cache is set and there is one; otherwise an
\* instance is made by __init__, is given the key, and is cached if
\* use_cache is set
Construct ==
    /\ mcalls < MaxMolCalls
    /\ \E building_blocks \in MolBbLists, topology \in Topologies,
          use_cache \in BOOLEAN, fail_at \in {"none", "prepare"} :
         ConstructCall(use_cache,
             generate_key(building_blocks, topology,
                          DefaultConf(building_blocks), use_cache),
             ConstructedMolecule_init(building_blocks, topology,
                                      DefaultConf(building_blocks), fail_at))
    /\ mcalls' = mcalls + 1
    /\ UNCHANGED doc
    /\ UNCHANGED <<ckey_vars, pair_vars>>
    /\ UNCHANGED <<reactor_vars, key_vars, matcher_vars, construct_vars>>

AddConformerCall(self, R) ==
    /\ objs' = [objs EXCEPT ![self] = R.obj]
    /\ mlast' = Called("add_conformer", self, objs[self].key, FALSE, R, 0,
                       TRUE)

\* self.add_conformer(bb_conformers) on an instance
AddConformer ==
    /\ mcalls < MaxMolCalls
    /\ \E self \in 1..Len(objs), fail_at \in FailPoints :
       \E bb_conformers \in
              {NoneConf, OtherConf(objs[self].building_blocks)} :
         AddConformerCall(self,
             add_conformer(objs[self], bb_conformers, fail_at))
    /\ mcalls' = mcalls + 1
    /\ UNCHANGED <<cache, doc>>
    /\ UNCHANGED <<ckey_vars, pair_vars>>
    /\ UNCHANGED <<reactor_vars, key_vars, matcher_vars, construct_vars>>

\* self.to_json() on an instance
ToJson ==
    /\ mcalls < MaxMolCalls
    /\ \E self \in 1..Len(objs) :
         /\ doc' = <<to_json(objs[self])>>
         /\ mlast' = Called("to_json", self, objs[self].key, FALSE,
                            NoError, 0, FALSE)
    /\ mcalls' = mcalls + 1
    /\ UNCHANGED <<objs, cache>>
    /\ UNCHANGED <<ckey_vars, pair_vars>>
    /\ UNCHANGED <<reactor_vars, key_vars, matcher_vars, construct_vars>>

\* the key of the molecule a document describes
DocumentKey(json_dict) ==
    generate_key(RestoredBlocks(json_dict), RestoredTopology(json_dict),
                 NoneConf, FALSE)

LoadCall(use_cache, R) ==
    /\ objs' = R.instances
    /\ cache' = R.cache
    /\ mlast' = Called("load", 0, DocumentKey(doc[1]), use_cache,
                       [error |-> R.error, cause |-> "", new_id |-> -1],
                       R.result, FALSE)

\* ConstructedMolecule._init_from_json(doc, use_cache) on the document
\* to_json returned
Load ==
    /\ mcalls < MaxMolCalls
    /\ doc # <<>>
    /\ \E use_cache \in BOOLEAN :
         LoadCall(use_cache, init_from_json(doc[1], use_cache, objs, cache))
    /\ mcalls' = mcalls + 1
    /\ UNCHANGED doc
    /\ UNCHANGED <<ckey_vars, pair_vars>>
    /\ UNCHANGED <<reactor_vars, key_vars, matcher_vars, construct_vars>>

MoleculeNext == Construct \/ AddConformer \/ ToJson \/ Load

\* the instances are made beside a Reactor that is left alone
MoleculeSpecInit ==
    /\ ReactorInit("amine_amine")
    /\ KeyInit
    /\ MatcherInit
    /\ ConstructInit
    /\ AssemblyInit

MoleculeSpec == MoleculeSpecInit /\ [][MoleculeNext]_vars

----------------------------------------------------------------------------
(* ConstructedMolecule._generate_key on its own: two requests are given,  *)
(* and the key of each is generated.                                      *)

\* the lists of building blocks a key is generated from
KeyBbLists == SeqsUpTo(BuildingBlocks, MaxBlocks) \ {<<>>}

\* the arguments of a request, its key not generated yet
Request(building_blocks, topology, bb_conformers, use_cache) ==
    [building_blocks |-> building_blocks, topology |-> topology,
     bb_conformers |-> bb_conformers, use_cache |-> use_cache,
     generated |-> FALSE, key |-> <<{}, <<>>>>]

\* the request with its key generated
WithKey(request) ==
    [request EXCEPT
       !.generated = TRUE,
       !.key = generate_key(request.building_blocks, request.topology,
                            request.bb_conformers, request.use_cache)]

GenerateKey1 ==
    /\ ~requests[1].generated
    /\ requests' = [requests EXCEPT ![1] = WithKey(requests[1])]
    /\ UNCHANGED <<molecule_vars, pair_vars>>
    /\ UNCHANGED <<reactor_vars, key_vars, matcher_vars, construct_vars>>

GenerateKey2 ==
    /\ ~requests[2].generated
    /\ requests' = [requests EXCEPT ![2] = WithKey(requests[2])]
    /\ UNCHANGED <<molecule_vars, pair_vars>>
    /\ UNCHANGED <<reactor_vars, key_vars, matcher_vars, construct_vars>>

CKeyNext == GenerateKey1 \/ GenerateKey2

\* the first request uses the cache and the default conformers; the second
\* is any request
CKeySpecInit ==
    /\ ReactorInit("amine_amine")
    /\ KeyInit
    /\ MatcherInit
    /\ ConstructInit
    /\ MoleculeInit
    /\ NoPairInit
    /\ \E bbs1 \in KeyBbLists, bbs2 \in KeyBbLists :
       \E topology1 \in Topologies, topology2 \in Topologies :
       \E bb_conformers \in {DefaultConf(bbs2), OtherConf(bbs2)} :
       \E use_cache \in BOOLEAN :
          requests = <<Request(bbs1, topology1, DefaultConf(bbs1), TRUE),
                       Request(bbs2, topology2, bb_conformers, use_cache)>>

CKeySpec == CKeySpecInit /\ [][CKeyNext]_vars

----------------------------------------------------------------------------
(* Two Reactors at work, each on a molecule of its own: the calls on the  *)
(* one and on the other come in any order.                                *)

\* how many calls are made on one Reactor
MaxPairCalls == 2

\* the direction the periodic reactions of the two Reactors take
PairDirection == <<1, 0, 0>>

\* the groups the reactions of Reactor r join
PairFgArgs(r) ==
    IF r = 1 THEN {<<1, 2>>, <<2, 1>>} ELSE {<<1, 2>>, <<2, 3>>}

\* a call on a Reactor, and how many calls on the two came before it
PairCall(op, fgs, direction) ==
    [op |-> op, fgs |-> fgs, direction |-> direction,
     at |-> Len(hist[1]) + Len(hist[2])]

\* self._deleter_ids were it an attribute of the class
ClassDeleterIds(all, r) == UNION {all[q].deleter_ids : q \in DOMAIN all}

\* self._deleter_ids of Reactor r: a set of its own, made in __init__
\* (line 625)
OwnDeleterIds(all, r) == all[r].deleter_ids

\* the self of a call on Reactor r: its molecule (line 623) and the
\* attributes __init__ gave it (lines 620-625)
Self(r) == [rs[r] EXCEPT !.deleter_ids = OwnDeleterIds(rs, r)]

\* the call made on S
Apply(S, call) ==
    CASE call.op = "add_reaction" -> add_reaction(S, call.fgs)
      [] call.op = "add_periodic_reaction" ->
            add_periodic_reaction(S, call.direction, call.fgs)
      [] call.op = "finalize" -> finalize(S)

\* a call may be made on Reactor r: none of its calls raised
CanCall(r) == rs[r].exc = "" /\ Len(hist[r]) < MaxPairCalls

\* the Reactors after a call on Reactor r: the call works on self and on
\* the molecule of self
AfterCall(r, call) == [rs EXCEPT ![r] = Apply(Self(r), call)]

\* the tables of the class after a call: the methods read them (lines
\* 657, 667, 701, 705) and assign to none
TablesAfterCall == registries

PairAddReaction ==
    \E r \in 1..2 : \E fgs \in PairFgArgs(r) :
        /\ CanCall(r)
        /\ rs' = AfterCall(r, PairCall("add_reaction", fgs, <<>>))
        /\ hist' = [hist EXCEPT
                      ![r] = Append(@, PairCall("add_reaction", fgs, <<>>))]
        /\ registries' = TablesAfterCall
        /\ UNCHANGED <<reactor_vars, key_vars, matcher_vars,
                       construct_vars, molecule_vars, ckey_vars>>

PairAddPeriodicReaction ==
    \E r \in 1..2 : \E fgs \in PairFgArgs(r) :
        /\ CanCall(r)
        /\ rs' = AfterCall(r, PairCall("add_periodic_reaction", fgs,
                                       PairDirection))
        /\ hist' = [hist EXCEPT
                      ![r] = Append(@, PairCall("add_periodic_reaction",
                                                fgs, PairDirection))]
        /\ registries' = TablesAfterCall
        /\ UNCHANGED <<reactor_vars, key_vars, matcher_vars,
                       construct_vars, molecule_vars, ckey_vars>>

PairFinalize ==
    \E r \in 1..2 :
        /\ CanCall(r)
        /\ rs' = AfterCall(r, PairCall("finalize", <<>>, <<>>))
        /\ hist' = [hist EXCEPT
                      ![r] = Append(@, PairCall("finalize", <<>>, <<>>))]
        /\ registries' = TablesAfterCall
        /\ UNCHANGED <<reactor_vars, key_vars, matcher_vars,
                       construct_vars, molecule_vars, ckey_vars>>

PairNext == PairAddReaction \/ PairAddPeriodicReaction \/ PairFinalize

PairSpecInit ==
    /\ ReactorInit("amine_amine")
    /\ KeyInit
    /\ MatcherInit
    /\ ConstructInit
    /\ MoleculeInit
    /\ CKeyInit
    /\ PairInit

PairSpec == PairSpecInit /\ [][PairNext]_vars

----------------------------------------------------------------------------
(* The diol + dihalogen reaction over the geometries of a molecule: the   *)
(* bonder carbons and the bonder oxygens lie on a line, at every place    *)
(* of a few.                                                              *)

\* where the two bonder carbons of the dibromine lie on the line
CarbonXs == {<<0, 10>>, <<10, 0>>}

\* where a bonder oxygen of the diol may lie on the line
OxygenXs == {-5, 4, 5, 6, 15}

\* the position matrix with the bonder oxygens (atoms 1 and 4) and the
\* bonder carbons (atoms 7 and 8) put on the line
OnLine(rows, cx, o1x, o2x) ==
    [rows EXCEPT ![2] = <<o1x, 0, 0>>, ![5] = <<o2x, 0, 0>>,
                 ![8] = <<cx[1], 0, 0>>, ![9] = <<cx[2], 0, 0>>]

\* the argument lists of the reaction: the two groups, in either order
DiolFgArgs == {<<1, 2>>, <<2, 1>>}

\* Reactor(mol), mol the diol and the dibromine in one of the geometries
DiolReactorInit ==
    /\ scenario = "diol_dibromine"
    /\ atoms = DiolDibromine.atoms
    /\ bonds = DiolDibromine.bonds
    /\ \E cx \in CarbonXs : \E o1x \in OxygenXs :
         \E o2x \in OxygenXs \ {o1x} :
            position_matrix =
                OnLine(DiolDibromine.position_matrix, cx, o1x, o2x)
    /\ func_groups = DiolDibromine.func_groups
    /\ deleter_ids = {}
    /\ bonds_made = 0
    /\ exc = ""
    /\ last = [op |-> "__init__", fgs |-> <<>>, direction |-> <<>>,
               kind |-> ""]
    /\ log = <<>>
    /\ returned = <<>>
    /\ finalize_calls = 0
    /\ ever_staged = {}

\* add_reaction(fg1, fg2) on the diol and the dibromine
DiolAddReaction ==
    /\ exc = ""
    /\ Len(log) < MaxReactions
    /\ \E fgs \in DiolFgArgs :
         /\ Becomes(add_reaction(Cur, fgs))
         /\ last' = [op |-> "add_reaction", fgs |-> fgs,
                     direction |-> <<>>, kind |-> Kind(Cur, fgs)]
         /\ log' = IF add_reaction(Cur, fgs).exc = ""
                   THEN Append(log, LogEntry("add_reaction", Kind(Cur, fgs),
                                             fgs, <<>>,
                                             add_reaction(Cur, fgs)))
                   ELSE log
    /\ UNCHANGED <<returned, finalize_calls>>
    /\ UNCHANGED key_vars
    /\ UNCHANGED assembly_vars
    /\ UNCHANGED matcher_vars
    /\ UNCHANGED construct_vars

DiolNext == DiolAddReaction \/ Finalize

DiolSpecInit ==
    /\ DiolReactorInit
    /\ KeyInit
    /\ MatcherInit
    /\ ConstructInit
    /\ AssemblyInit

DiolSpec == DiolSpecInit /\ [][DiolNext]_vars

----------------------------------------------------------------------------
(* add_reaction on its own: a Reactor is created on one of the molecules, *)
(* and add_reaction is called on it with one or two of its groups.        *)

\* how many add_reaction calls return
MaxChoices == 2

\* add_reaction(*fgs)
ChooseReaction ==
    /\ exc = ""
    /\ Len(log) < MaxChoices
    /\ \E fgs \in FgArgs(Cur) :
         /\ Becomes(add_reaction(Cur, fgs))
         /\ last' = [op |-> "add_reaction", fgs |-> fgs,
                     direction |-> <<>>, kind |-> Kind(Cur, fgs)]
         /\ log' = IF add_reaction(Cur, fgs).exc = ""
                   THEN Append(log, LogEntry("add_reaction", Kind(Cur, fgs),
                                             fgs, <<>>,
                                             add_reaction(Cur, fgs)))
                   ELSE log
    /\ UNCHANGED <<returned, finalize_calls>>
    /\ UNCHANGED key_vars
    /\ UNCHANGED assembly_vars
    /\ UNCHANGED matcher_vars
    /\ UNCHANGED construct_vars

ChoiceSpec == Init /\ [][ChooseReaction]_vars

----------------------------------------------------------------------------
(* add_periodic_reaction on its own: a Reactor is created on one of the   *)
(* molecules, and add_periodic_reaction is called on it.                  *)

\* how many add_periodic_reaction calls return
MaxPeriodic == 2

\* add_periodic_reaction(direction, *fgs)
PeriodicReaction ==
    /\ exc = ""
    /\ Len(log) < MaxPeriodic
    /\ \E fgs \in FgArgs(Cur), direction \in Directions :
         /\ Becomes(add_periodic_reaction(Cur, direction, fgs))
         /\ last' = [op |-> "add_periodic_reaction", fgs |-> fgs,
                     direction |-> direction, kind |-> "default"]
         /\ log' = IF add_periodic_reaction(Cur, direction, fgs).exc = ""
                   THEN Append(log,
                           LogEntry("add_periodic_reaction", "default", fgs,
                                    direction,
                                    add_periodic_reaction(Cur, direction,
                                                          fgs)))
                   ELSE log
    /\ UNCHANGED <<returned, finalize_calls>>
    /\ UNCHANGED key_vars
    /\ UNCHANGED assembly_vars
    /\ UNCHANGED matcher_vars
    /\ UNCHANGED construct_vars

PeriodicSpec == Init /\ [][PeriodicReaction]_vars

----------------------------------------------------------------------------
(* Reactions on groups that share no atom: a Reactor is created on the    *)
(* molecule of two amines and two aldehydes, add_reaction is called on    *)
(* it, and then finalize.                                                 *)

\* how many add_reaction calls return
MaxCommute == 2

\* add_reaction(*fgs), before finalize
CommuteAddReaction ==
    /\ exc = ""
    /\ finalize_calls = 0
    /\ last.op # "finalize"
    /\ Len(log) < MaxCommute
    /\ \E fgs \in FgArgs(Cur) :
         /\ Becomes(add_reaction(Cur, fgs))
         /\ last' = [op |-> "add_reaction", fgs |-> fgs,
                     direction |-> <<>>, kind |-> Kind(Cur, fgs)]
         /\ log' = IF add_reaction(Cur, fgs).exc = ""
                   THEN Append(log, LogEntry("add_reaction", Kind(Cur, fgs),
                                             fgs, <<>>,
                                             add_reaction(Cur, fgs)))
                   ELSE log
    /\ UNCHANGED <<returned, finalize_calls>>
    /\ UNCHANGED key_vars
    /\ UNCHANGED assembly_vars
    /\ UNCHANGED matcher_vars
    /\ UNCHANGED construct_vars

CommuteNext == CommuteAddReaction \/ Finalize

CommuteSpecInit ==
    /\ ReactorInit("amines_aldehydes")
    /\ KeyInit
    /\ MatcherInit
    /\ ConstructInit
    /\ AssemblyInit

CommuteSpec == CommuteSpecInit /\ [][CommuteNext]_vars

----------------------------------------------------------------------------
(* What the properties below speak of. *)

\* the molecule and the functional groups the Reactor was created on
InitialMol == Scenario(scenario)

\* the id an end of a bond refers to
EndId(x) == IF HasId(x) THEN x.id ELSE x.int

\* by how much each logged call raised the bond count
Made(l) == [k \in 1..Len(l) |-> l[k].made]

\* finalize was the last call, and it returned
FinalizeReturned == last.op = "finalize" /\ exc = ""

\* no finalize call was made yet
BeforeFinalize == finalize_calls = 0 /\ last.op # "finalize"

\* a reaction call was the last call, and it returned
ReactionReturned ==
    last.op \in {"add_reaction", "add_periodic_reaction"} /\ exc = ""

----------------------------------------------------------------------------
\* C1: when finalize has returned, no atom whose id was ever in the
\* Reactor's deletion set is in the molecule's atom list, and no bond one
\* of whose two ends is such an atom is in its bond list.
C1_StagedAtomsGoneAfterFinalize ==
    FinalizeReturned =>
        /\ \A k \in 1..Len(atoms) : atoms[k].id \notin ever_staged
        /\ \A k \in 1..Len(bonds) :
              /\ EndId(bonds[k].atom1) \notin ever_staged
              /\ EndId(bonds[k].atom2) \notin ever_staged

\* finalize returned after two reactions, and took atoms and bonds away
C1_Witness ==
    /\ FinalizeReturned
    /\ Len(log) = 2
    /\ ever_staged # {}
    /\ Len(atoms) < Len(InitialMol.atoms)
    /\ Len(bonds) < Len(InitialMol.bonds) + SumSeq(Made(log))

----------------------------------------------------------------------------
\* C4: the bond count starts at 0, changes only by what the reaction calls
\* that returned added to it, none of which is negative, is left alone by
\* finalize, and is what finalize returns.
C4_FinalizeReturnsSumOfIncrements ==
    /\ bonds_made = SumSeq(Made(log))
    /\ \A k \in 1..Len(log) : log[k].made >= 0
    /\ FinalizeReturned => returned = <<SumSeq(Made(log))>>

\* finalize returned 13: a ring-amine reaction and a default one
C4_Witness ==
    /\ FinalizeReturned
    /\ Len(log) = 2
    /\ returned = <<13>>

----------------------------------------------------------------------------
\* what C5 says one call of each kind adds to the bond count
ClaimedContribution(kind) ==
    CASE kind = "default" -> 2
      [] kind = "_boronic_acid_with_diol" -> 2
      [] kind = "_diol_with_dihalogen" -> 2
      [] kind = "_ring_amine_with_ring_amine" -> 12

\* what one call of each kind adds to the bond count
Contribution(kind) ==
    CASE kind = "default" -> 1
      [] kind = "_boronic_acid_with_diol" -> 2
      [] kind = "_diol_with_dihalogen" -> 2
      [] kind = "_ring_amine_with_ring_amine" -> 12

Claimed(l) == [k \in 1..Len(l) |-> ClaimedContribution(l[k].kind)]

Contributions(l) == [k \in 1..Len(l) |-> Contribution(l[k].kind)]

\* C5, as stated: a default pairwise reaction adds 2 to the bond count, as
\* do boronic acid + diol and diol + dihalogen, ring amine + ring amine
\* adds 12, and finalize returns the sum over the calls.
C5_ContributionsAsClaimed ==
    /\ \A k \in 1..Len(log) : log[k].made = ClaimedContribution(log[k].kind)
    /\ FinalizeReturned => returned = <<SumSeq(Claimed(log))>>

\* C5, amended: a default pairwise reaction (periodic or not) adds 1 to
\* the bond count, boronic acid + diol and diol + dihalogen add 2, ring
\* amine + ring amine adds 12, and finalize returns the sum over the calls.
C5_Contributions ==
    /\ \A k \in 1..Len(log) : log[k].made = Contribution(log[k].kind)
    /\ FinalizeReturned => returned = <<SumSeq(Contributions(log))>>

\* finalize returned 3: boronic acid + diol, and a default reaction
C5_Witness ==
    /\ FinalizeReturned
    /\ Len(log) = 2
    /\ log[1].kind = "_boronic_acid_with_diol"
    /\ log[2].kind = "default"
    /\ returned = <<3>>

----------------------------------------------------------------------------
\* C7: as long as finalize was not called, every atom the molecule had
\* when the Reactor was created is still in its atom list, at its place,
\* and has its row of the position matrix, staged for deletion or not.
C7_DeletionsStagedNotApplied ==
    BeforeFinalize =>
        /\ Len(atoms) >= Len(InitialMol.atoms)
        /\ Len(position_matrix) >= Len(InitialMol.position_matrix)
        /\ \A k \in 1..Len(InitialMol.atoms) :
              /\ atoms[k] = InitialMol.atoms[k]
              /\ position_matrix[k] = InitialMol.position_matrix[k]

\* before finalize, an atom staged for deletion is in the atom list
C7_Witness ==
    /\ BeforeFinalize
    /\ exc = ""
    /\ \E k \in 1..Len(atoms) : atoms[k].id \in deleter_ids

----------------------------------------------------------------------------
\* how often a name is in a list of names
Count(fg_names, n) ==
    Cardinality({i \in 1..Len(fg_names) : fg_names[i] = n})

SameMultiset(fg_names_a, fg_names_b) ==
    \A n \in Range(fg_names_a) \cup Range(fg_names_b) :
        Count(fg_names_a, n) = Count(fg_names_b, n)

\* C10: two keys are equal exactly when the names they were built from
\* are the same multiset, whatever the order of the names; so
\* key(amine, aldehyde, amine) = key(amine, amine, aldehyde), and
\* key(amine, aldehyde) # key(amine, aldehyde, amine).
C10_KeyEqualIffSameMultiset ==
    /\ KeyEq(key1, key2) <=> SameMultiset(names1, names2)
    /\ (names1 = <<"amine", "aldehyde", "amine">>
            /\ names2 = <<"amine", "amine", "aldehyde">>)
         => KeyEq(key1, key2)
    /\ (names1 = <<"amine", "aldehyde">>
            /\ names2 = <<"amine", "aldehyde", "amine">>)
         => ~KeyEq(key1, key2)

\* the keys of (amine, aldehyde, amine) and (amine, amine, aldehyde)
C10_Witness ==
    /\ names1 = <<"amine", "aldehyde", "amine">>
    /\ names2 = <<"amine", "amine", "aldehyde">>
    /\ KeyEq(key1, key2)

----------------------------------------------------------------------------
\* the bond order C2 expects between groups of types t1 and t2
ClaimedOrder(t1, t2) ==
    IF {t1, t2} \in { {"amine", "aldehyde"}, {"amide", "aldehyde"},
                      {"nitrile", "aldehyde"}, {"amide", "amine"},
                      {"terminal_alkene"} }
    THEN 2
    ELSE IF {t1, t2} = {"alkyne2"} THEN 3 ELSE 1

\* the bonds of the molecule that it did not have at first
NewBonds ==
    LET IsNew(bond) == bond \notin Range(InitialMol.bonds)
    IN  SelectSeq(bonds, IsNew)

\* exactly one default add_reaction was made, and then finalize
OneDefaultReactionFinalized ==
    /\ FinalizeReturned
    /\ finalize_calls = 1
    /\ Len(log) = 1
    /\ log[1].op = "add_reaction"
    /\ log[1].kind = "default"

\* C2, as stated: a default add_reaction on fg1 and fg2 followed by
\* finalize leaves exactly one new bond, from fg1.bonders[0] to
\* fg2.bonders[0], of order 1 unless the bond-order table says otherwise,
\* and finalize returns 1; with the two amines, the four hydrogens are gone
\* and the new bond is a single bond between the two nitrogens.
C2_DefaultReactionAsClaimed ==
    OneDefaultReactionFinalized =>
        LET fg1 == InitialMol.func_groups[log[1].fgs[1]]
            fg2 == InitialMol.func_groups[log[1].fgs[2]]
        IN  /\ NewBonds = << Bond(fg1.bonders[1], fg2.bonders[1],
                                  ClaimedOrder(fg1.fg_type, fg2.fg_type)) >>
            /\ returned = <<1>>
            /\ (scenario = "amine_amine" /\ log[1].fgs = <<1, 2>>) =>
                  /\ Ids(atoms) = <<0, 1, 4, 5>>
                  /\ NewBonds = << Bond(Atom(1, 7), Atom(5, 7), 1) >>

----------------------------------------------------------------------------
\* the ids staged once the first k groups of fgs are gone through
StagedAfter(fgs, k) ==
    deleter_ids \cup
        UNION {get_deleter_ids(func_groups[fgs[j]]) : j \in 1..k}

\* the atoms of a sequence that are not in a set of ids
Without(atom_seq, ids) ==
    LET Keep(a) == a.id \notin ids
    IN  SelectSeq(atom_seq, Keep)

\* the step is a default add_reaction on two groups that returned
DefaultReactionStep ==
    /\ last'.op = "add_reaction"
    /\ last'.kind = "default"
    /\ Len(last'.fgs) = 2
    /\ exc' = ""

----------------------------------------------------------------------------
IsPrefix(s, t) == Len(s) <= Len(t) /\ SubSeq(t, 1, Len(s)) = s

\* the step is a reaction call
ReactionStep == last'.op \in {"add_reaction", "add_periodic_reaction"}

----------------------------------------------------------------------------
\* C8, as stated: once finalize has returned, a reaction call changes
\* neither the molecule nor the bond count.
C8_NoReactionAfterFinalizeAsClaimed ==
    [][(finalize_calls >= 1 /\ ReactionStep) =>
          /\ atoms' = atoms
          /\ bonds' = bonds
          /\ position_matrix' = position_matrix
          /\ bonds_made' = bonds_made
    ]_vars

\* C8, amended: the Reactor has no finalized state that turns calls away.
\* After finalize a reaction call is carried out as before it: one that
\* returns on the default path appends one bond to the molecule's bond
\* list and adds 1 to the bond count.  What finalize does is not undone:
\* the deletion set keeps every id staged, and the bond count is not
\* reset.
C8_ReactionsAfterFinalize ==
    [][ /\ (finalize_calls >= 1 /\ ReactionStep /\ exc' = ""
               /\ last'.kind = "default") =>
              /\ Len(bonds') = Len(bonds) + 1
              /\ bonds_made' = bonds_made + 1
        /\ deleter_ids \subseteq deleter_ids'
        /\ ever_staged' = deleter_ids'
        /\ bonds_made' >= bonds_made
    ]_vars

\* a default reaction returned after finalize had returned
C8_Witness ==
    /\ finalize_calls >= 1
    /\ ReactionReturned
    /\ last.kind = "default"
    /\ deleter_ids # {}
    /\ bonds_made = 2

----------------------------------------------------------------------------
\* what add_reaction and add_periodic_reaction leave, run from the same
\* state on the same two groups, agrees in all but the kind of the bond
SameButBondType(A, P, direction, fgs) ==
    /\ A.deleter_ids = P.deleter_ids
    /\ A.bonds_made = P.bonds_made
    /\ \A k \in 1..Len(fgs) :
          /\ A.func_groups[fgs[k]].atoms = P.func_groups[fgs[k]].atoms
          /\ A.func_groups[fgs[k]].deleters = P.func_groups[fgs[k]].deleters
    /\ Len(A.bonds) = Len(P.bonds)
    /\ LET a == A.bonds[Len(A.bonds)]
           b == P.bonds[Len(P.bonds)]
       IN  /\ a.atom1 = b.atom1
           /\ a.atom2 = b.atom2
           /\ a.order = b.order
           /\ ~a.periodic
           /\ b.periodic
           /\ b.direction = direction

\* C9, as stated: from any state, on any two groups whose key has no
\* custom procedure, add_periodic_reaction(direction, fg1, fg2) and
\* add_reaction(fg1, fg2) leave the same deletion set, the same atoms and
\* deleters of each group, the same bond count and a bond with the same
\* ends and order, the periodic one carrying direction.
C9_PeriodicLikeAddReactionAsClaimed ==
    exc = "" =>
        \A fgs \in FgArgs(Cur), direction \in Directions :
            (Len(fgs) = 2 /\ Kind(Cur, fgs) = "default") =>
                LET A == add_reaction(Cur, fgs)
                    P == add_periodic_reaction(Cur, direction, fgs)
                IN  /\ A.exc = P.exc
                    /\ A.exc = "" => SameButBondType(A, P, direction, fgs)

----------------------------------------------------------------------------
\* the groups of a diol + dihalogen call: the diol and the dihalogen
DiolOf(fgs) ==
    IF InitialMol.func_groups[fgs[1]].fg_type = "diol"
    THEN InitialMol.func_groups[fgs[1]]
    ELSE InitialMol.func_groups[fgs[2]]

DihalogenOf(fgs) ==
    IF InitialMol.func_groups[fgs[1]].fg_type = "diol"
    THEN InitialMol.func_groups[fgs[2]]
    ELSE InitialMol.func_groups[fgs[1]]

\* one diol + dihalogen add_reaction on groups of two bonders each was
\* made, and then finalize was called
DiolDihalogenThenFinalize ==
    /\ last.op = "finalize"
    /\ Len(log) = 1
    /\ log[1].op = "add_reaction"
    /\ log[1].kind = "_diol_with_dihalogen"
    /\ Len(DiolOf(log[1].fgs).bonders) = 2
    /\ Len(DihalogenOf(log[1].fgs).bonders) = 2

\* C11, as stated: a diol and a dibromine (or difluorene) group of two
\* bonders each, reacted through add_reaction, leave after finalize exactly
\* two new single bonds, each from a bonder carbon of the dihalogen to a
\* bonder oxygen of the diol, the two sharing no atom, and finalize
\* returns 2.
C11_DiolDihalogenAsClaimed ==
    DiolDihalogenThenFinalize =>
        /\ exc = ""
        /\ returned = <<2>>
        /\ Len(NewBonds) = 2
        /\ \A k \in 1..Len(NewBonds) :
              /\ NewBonds[k].order = 1
              /\ NewBonds[k].atom1 \in Range(DihalogenOf(log[1].fgs).bonders)
              /\ NewBonds[k].atom2 \in Range(DiolOf(log[1].fgs).bonders)
        /\ Len(NewBonds) = 2 =>
              {NewBonds[1].atom1, NewBonds[1].atom2}
                  \cap {NewBonds[2].atom1, NewBonds[2].atom2} = {}

----------------------------------------------------------------------------
\* the step is a diol + dihalogen add_reaction in which a group has fewer
\* than two bonders, so that two pairs of distinct carbons and oxygens are
\* not to be found
DegenerateDiolStep ==
    /\ last'.op = "add_reaction"
    /\ last'.kind = "_diol_with_dihalogen"
    /\ \E k \in 1..2 : Len(func_groups[last'.fgs[k]].bonders) < 2

\* C12, as stated: when the diol + dihalogen procedure cannot find two
\* pairs, the call fails with DegenerateReactionError, no bond is added
\* and the bond count is unchanged.
C12_DegenerateFailsAsClaimed ==
    [][DegenerateDiolStep =>
          /\ exc' = "DegenerateReactionError"
          /\ bonds' = bonds
          /\ bonds_made' = bonds_made
    ]_vars

\* C12, amended: the call fails with the ValueError of unpacking fewer
\* than two pairs (or, when a bonder's row is beyond the position matrix,
\* with the IndexError of the distance lookup before it); no bond is
\* added and the bond count is unchanged.
C12_DegenerateFails ==
    [][DegenerateDiolStep =>
          /\ \/ exc' = "ValueError"
             \/ /\ exc' = "IndexError"
                /\ \E k \in 1..2 :
                     \E id \in Range(get_bonder_ids(func_groups[last'.fgs[k]])) :
                        id >= Len(position_matrix)
          /\ bonds' = bonds
          /\ bonds_made' = bonds_made
          /\ atoms' = atoms
    ]_vars

\* a diol + dihalogen call on a dibromine group of one bonder has failed
C12_Witness ==
    /\ scenario = "diol_dibromine_one_bonder"
    /\ last.op = "add_reaction"
    /\ last.kind = "_diol_with_dihalogen"
    /\ exc = "ValueError"
    /\ bonds = InitialMol.bonds

----------------------------------------------------------------------------
\* the groups of a boronic acid + diol call, as they are before it
BoronOf(fgs) ==
    IF func_groups[fgs[1]].fg_type = "boronic_acid"
    THEN func_groups[fgs[1]] ELSE func_groups[fgs[2]]

DiolBesideBoron(fgs) ==
    IF func_groups[fgs[1]].fg_type = "boronic_acid"
    THEN func_groups[fgs[2]] ELSE func_groups[fgs[1]]

\* the step is a boronic acid + diol add_reaction on a boronic acid with a
\* bonder and a diol with two
BoronicStep ==
    /\ last'.op = "add_reaction"
    /\ last'.kind = "_boronic_acid_with_diol"
    /\ Len(BoronOf(last'.fgs).bonders) >= 1
    /\ Len(DiolBesideBoron(last'.fgs).bonders) >= 2

\* C13: boronic acid + diol, in either argument order: add_reaction
\* returns; the deleters of both groups are staged, each group's atoms are
\* left without the staged ones and its deleters are emptied, as on the
\* default path; exactly two single bonds are appended, from the boronic
\* acid's first bonder to the diol's first and to its second bonder; the
\* bond count goes up by 2.
C13_BoronicAcidWithDiol ==
    [][BoronicStep =>
        /\ exc' = ""
        /\ deleter_ids' = StagedAfter(last'.fgs, 2)
        /\ \A k \in 1..2 :
             LET i == last'.fgs[k]
             IN  /\ func_groups'[i].atoms =
                        Without(func_groups[i].atoms,
                                StagedAfter(last'.fgs, k))
                 /\ func_groups'[i].deleters = <<>>
                 /\ func_groups'[i].bonders = func_groups[i].bonders
        /\ bonds' = bonds \o
              << Bond(BoronOf(last'.fgs).bonders[1],
                      DiolBesideBoron(last'.fgs).bonders[1], 1),
                 Bond(BoronOf(last'.fgs).bonders[1],
                      DiolBesideBoron(last'.fgs).bonders[2], 1) >>
        /\ bonds_made' = bonds_made + 2
        /\ atoms' = atoms
    ]_vars

\* add_reaction(diol, boronic_acid) has returned, its deleters staged
C13_Witness ==
    /\ last.op = "add_reaction"
    /\ last.kind = "_boronic_acid_with_diol"
    /\ func_groups[last.fgs[1]].fg_type = "diol"
    /\ exc = ""
    /\ bonds_made = 2
    /\ deleter_ids = {2, 3, 4, 5, 6, 11}
    /\ Len(bonds) = Len(InitialMol.bonds) + 2

----------------------------------------------------------------------------
\* the step is a ring amine + ring amine add_reaction that returned
RingAmineStep ==
    /\ last'.op = "add_reaction"
    /\ last'.kind = "_ring_amine_with_ring_amine"
    /\ exc' = ""

\* the atoms a step appended
AppendedAtoms == {atoms'[j] : j \in (Len(atoms) + 1)..Len(atoms')}

\* C14: a ring amine + ring amine add_reaction stages no atom for
\* deletion and leaves the groups as they are, appends exactly 9 atoms to
\* the atom list and 9 rows to the position matrix, appends exactly 12
\* bonds, each with at least one of the 9 appended atoms as an end, and
\* raises the bond count by 12.
C14_RingAmineWithRingAmine ==
    [][RingAmineStep =>
        /\ deleter_ids' = deleter_ids
        /\ func_groups' = func_groups
        /\ IsPrefix(atoms, atoms')
        /\ Len(atoms') = Len(atoms) + 9
        /\ IsPrefix(position_matrix, position_matrix')
        /\ Len(position_matrix') = Len(position_matrix) + 9
        /\ IsPrefix(bonds, bonds')
        /\ Len(bonds') = Len(bonds) + 12
        /\ \A k \in (Len(bonds) + 1)..Len(bonds') :
              \/ bonds'[k].atom1 \in AppendedAtoms
              \/ bonds'[k].atom2 \in AppendedAtoms
        /\ bonds_made' = bonds_made + 12
    ]_vars

\* a ring amine + ring amine add_reaction has returned on the untouched
\* molecule
C14_Witness ==
    /\ last.op = "add_reaction"
    /\ last.kind = "_ring_amine_with_ring_amine"
    /\ exc = ""
    /\ bonds_made = 12
    /\ Len(atoms) = Len(InitialMol.atoms) + 9
    /\ deleter_ids = {}

----------------------------------------------------------------------------
\* the bonders and the deleters of a group are among its atoms, and none
\* of its atoms is both
FgInvariant(fg) ==
    /\ Range(fg.bonders) \subseteq Range(fg.atoms)
    /\ Range(fg.deleters) \subseteq Range(fg.atoms)
    /\ Range(fg.bonders) \cap Range(fg.deleters) = {}

\* C15, as stated: in every state reached by Reactor operations from
\* groups that satisfy it, each group's bonders and deleters are subsets
\* of its atoms and no atom is both a bonder and a deleter of the same
\* group, also when groups overlap.
C15_FunctionalGroupInvariantAsClaimed ==
    (\A i \in 1..Len(InitialMol.func_groups) :
        FgInvariant(InitialMol.func_groups[i]))
    => \A i \in 1..Len(func_groups) : FgInvariant(func_groups[i])

----------------------------------------------------------------------------
\* C16, as stated: when a reaction call of any kind has returned, each
\* group it was given has an empty deleters tuple and no atom that is
\* staged for deletion; and the groups are all still there, through
\* finalize too.
C16_ConsumedGroupDepletedAsClaimed ==
    /\ ReactionReturned =>
          \A k \in 1..Len(last.fgs) :
             /\ func_groups[last.fgs[k]].deleters = <<>>
             /\ \A a \in Range(func_groups[last.fgs[k]].atoms) :
                   a.id \notin deleter_ids
    /\ Len(func_groups) = Len(InitialMol.func_groups)

----------------------------------------------------------------------------
(* What the pattern matcher finds in O1=C0-N2(H3)(H4), C5-N6(H7)(H8) for  *)
(* the entries of fg_types: the matches of fg_smarts, each in the order   *)
(* of the pattern's atoms, and for each bonder and deleter rule the atoms *)
(* its sub-pattern matches and its n.                                      *)
PatternMatches(name) ==
    CASE name = "amine" ->
           [fg_atoms |-> << <<2, 3, 4>>, <<6, 7, 8>> >>,
            bonder_smarts |-> << [atoms |-> {2, 6}, n |-> 1] >>,
            del_smarts |-> << [atoms |-> {3, 4, 7, 8}, n |-> 2] >>]
      [] name = "amide" ->
           [fg_atoms |-> << <<0, 1, 2, 3, 4>> >>,
            bonder_smarts |-> << [atoms |-> {0}, n |-> 1] >>,
            del_smarts |-> << [atoms |-> {2}, n |-> 1],
                              [atoms |-> {3, 4}, n |-> 2] >>]
      [] name = "aldehyde" ->
           [fg_atoms |-> <<>>,
            bonder_smarts |-> << [atoms |-> {}, n |-> 1] >>,
            del_smarts |-> << [atoms |-> {}, n |-> 1] >>]

\* the first n of a sequence
Take(s, n) == SubSeq(s, 1, IF Len(s) < n THEN Len(s) ELSE n)

\* what a rule gives to a match: the atoms of the match its sub-pattern
\* matches, in the order of the match, n at most
RuleAtoms(match, rule) ==
    LET Hit(id) == id \in rule.atoms
    IN  Take(SelectSeq(match, Hit), rule.n)

\* what the rules of a role give to a match, rule after rule
RECURSIVE RoleAtoms(_, _)
RoleAtoms(match, rules) ==
    IF rules = <<>> THEN <<>>
    ELSE RuleAtoms(match, Head(rules)) \o RoleAtoms(match, Tail(rules))

\* the functional group of a match
GroupOfMatch(name, match) ==
    MkFg(InitialMol.atoms, match,
         RoleAtoms(match, PatternMatches(name).bonder_smarts),
         RoleAtoms(match, PatternMatches(name).del_smarts), name)

\* the request names nothing but entries of the registry
Known(fg_names) == Range(fg_names) \subseteq RegistryNames

\* C17, as stated: on one molecular graph, two requests for the same
\* names, in whatever order and however often repeated, both return, and
\* return the same sequence of functional groups.
C17_MatcherDeterministicAsClaimed ==
    \A i, j \in 1..Len(calls) :
        (/\ Known(calls[i].fg_names)
         /\ SameMultiset(calls[i].fg_names, calls[j].fg_names)) =>
            /\ calls[i].exc = ""
            /\ calls[j].exc = ""
            /\ calls[i].func_groups = calls[j].func_groups

\* C18, as stated: a request for names of the registry returns; for each
\* requested name there is exactly one group per match of the whole
\* pattern; and each group holds the atoms of its match, with as bonders
\* (deleters) what the bonder (deleter) rules give to that match: the atoms
\* of the match the rule's sub-pattern matches, in the match's order, n at
\* most, nothing when there is none.
C18_RoleExtractionAsClaimed ==
    \A i \in 1..Len(calls) :
        Known(calls[i].fg_names) =>
            /\ calls[i].exc = ""
            /\ \A name \in Range(calls[i].fg_names) :
                 LET Is(fg) == fg.fg_type = name
                     got == SelectSeq(calls[i].func_groups, Is)
                     matches == PatternMatches(name).fg_atoms
                 IN  /\ Len(got) =
                           Count(calls[i].fg_names, name) * Len(matches)
                     /\ \A fg \in Range(got) :
                           \E k \in 1..Len(matches) :
                              fg = GroupOfMatch(name, matches[k])

\* C19, as stated: a request that names something the registry lacks
\* fails with UnknownFunctionalGroupError, and leaves the molecule's atom
\* list and bond list as they were.
C19_UnknownNameAsClaimed ==
    \A i \in 1..Len(calls) :
        ~Known(calls[i].fg_names) =>
            /\ calls[i].exc = "UnknownFunctionalGroupError"
            /\ atoms = InitialMol.atoms
            /\ bonds = InitialMol.bonds

----------------------------------------------------------------------------
\* C20, as stated: an exception raised during construction or
\* re-construction is caught nowhere below ConstructedMolecule, and leaves
\* the call as a ConstructionError whose cause is that exception; a call
\* returns only when nothing was raised.
C20_FailureSurfacedAsClaimed ==
    /\ cm.phase = "raised" =>
          /\ exc # ""
          /\ cm.error = "ConstructionError"
          /\ cm.cause = exc
    /\ cm.phase = "returned" => exc = ""

----------------------------------------------------------------------------
\* what a caller sees of an instance: its molecule with its coordinate
\* sets, its functional groups with their ids, and bonds_made
Visible(o) ==
    [mol |-> o.mol, func_groups |-> o.func_groups,
     func_groups_type |-> o.func_groups_type, bonds_made |-> o.bonds_made]

\* the last call was an add_conformer that raised ConstructionError
AddConformerFailed ==
    mlast.op = "add_conformer" /\ mlast.error = "ConstructionError"

\* C21, as stated: when an add_conformer call ends in a ConstructionError,
\* the molecule, its functional groups with their ids and its bonds_made
\* are what they were before the call.
C21_RollbackAsClaimed ==
    AddConformerFailed =>
        Visible(objs[mlast.self]) = Visible(mlast.objs[mlast.self])

----------------------------------------------------------------------------
\* the last call was an add_conformer that returned
AddConformerReturned == mlast.op = "add_conformer" /\ mlast.error = ""

ConformerIdsOf(mol) == {mol.conformers[i].id : i \in 1..Len(mol.conformers)}

\* C22: an add_conformer call that returns leaves the atom/bond graph of
\* the molecule as it was, leaves every coordinate set the molecule had,
\* with its id and its coordinates, as it was and in its place, and adds
\* one coordinate set, under an id no other set has, which is the id the
\* call returns; also when it is not the first such call on the molecule.
C22_AddConformerAddsOneCoordinateSet ==
    AddConformerReturned =>
        LET before == mlast.objs[mlast.self].mol
            after == objs[mlast.self].mol
        IN  /\ after.graph = before.graph
            /\ Len(after.conformers) = Len(before.conformers) + 1
            /\ SubSeq(after.conformers, 1, Len(before.conformers))
                   = before.conformers
            /\ after.conformers[Len(after.conformers)].id = mlast.new_id
            /\ mlast.new_id \notin ConformerIdsOf(before)

\* an add_conformer call has returned on a molecule that had two
\* coordinate sets, and has added coordinates the molecule did not have
C22_Witness ==
    /\ AddConformerReturned
    /\ Len(mlast.objs[mlast.self].mol.conformers) = 2
    /\ \A i \in 1..2 :
          objs[mlast.self].mol.conformers[i].coords
              # objs[mlast.self].mol.conformers[3].coords

----------------------------------------------------------------------------
\* the last call made an instance, or added a conformer to one, and
\* returned
ConstructionReturned ==
    /\ mlast.error = ""
    /\ \/ mlast.op = "__init__" /\ mlast.constructed
       \/ mlast.op = "add_conformer"

\* the last call ran topology.construct and raised
ConstructionFailed ==
    mlast.op \in {"__init__", "add_conformer"} /\ mlast.error # ""

\* the instance the last call made or worked on
Subject == IF mlast.op = "__init__" THEN mlast.result ELSE mlast.self

\* the functional groups topology.construct ends with for a topology, in
\* its order
ConstructionOrder(topology) ==
    FinalizeIfReturned(React(topology, ReactorOn("amine_amine"))).func_groups

\* C23: after a construction and after an add_conformer that returned,
\* func_groups is a tuple of the functional groups in the order
\* construction gave them, and the group at index i has id i; a
\* construction or add_conformer that raised has given no functional
\* group an id.
C23_FunctionalGroupIds ==
    /\ ConstructionReturned =>
          LET o == objs[Subject]
          IN  /\ o.func_groups_type = "tuple"
              /\ [i \in 1..Len(o.func_groups) |-> o.func_groups[i].fg]
                     = ConstructionOrder(o.topology)
              /\ \A i \in 1..Len(o.func_groups) :
                    o.func_groups[i].id = i - 1
    /\ ConstructionFailed =>
          /\ Len(objs) = Len(mlast.objs)
          /\ \A k \in 1..Len(objs) :
                \/ objs[k].func_groups = mlast.objs[k].func_groups
                \/ \A i \in 1..Len(objs[k].func_groups) :
                      objs[k].func_groups[i].id = NoId

\* an add_conformer call has returned on a molecule whose two functional
\* groups had no ids, an earlier add_conformer having raised, and they are
\* numbered again
C23_Witness ==
    /\ mlast.op = "add_conformer" /\ mlast.error = ""
    /\ Len(objs[mlast.self].func_groups) = 2
    /\ mlast.objs[mlast.self].func_groups[2].id = NoId
    /\ objs[mlast.self].func_groups[2].id = 1

----------------------------------------------------------------------------
\* the last call asked for an instance: a construction request, or a
\* load from a document
InstanceRequested == mlast.op \in {"__init__", "load"}

\* C24, as stated: with caching enabled a request whose key is in the
\* cache returns the cached instance without constructing anything, and a
\* request that returns an instance leaves it in the cache under its key,
\* so that the next request with an equal key gets the same instance;
\* with caching disabled a request returns an instance that is new and
\* leaves the cache as it was.
C24_CachingAsClaimed ==
    InstanceRequested =>
       /\ mlast.use_cache /\ InCache(mlast.cache, mlast.key) =>
             /\ mlast.error = ""
             /\ mlast.result = CacheAt(mlast.cache, mlast.key)
             /\ ~mlast.constructed
             /\ objs = mlast.objs
       /\ mlast.use_cache /\ mlast.error = "" =>
             /\ InCache(cache, mlast.key)
             /\ CacheAt(cache, mlast.key) = mlast.result
       /\ ~mlast.use_cache =>
             /\ cache = mlast.cache
             /\ mlast.error = "" => mlast.result = Len(mlast.objs) + 1

----------------------------------------------------------------------------
\* the set of the identities of the building blocks of a list
IdentitySet(building_blocks) == {bb.key : bb \in Range(building_blocks)}

BothGenerated == requests # <<>> /\ \A k \in 1..2 : requests[k].generated

\* C25: the keys of two requests are equal exactly when the sets of the
\* identities of their building blocks are equal and the descriptions of
\* their topologies are equal; so the key is the same for the building
\* blocks in another order or with one repeated, and whatever the
\* conformer ids and the use_cache flag are.
C25_KeyOfIdentitySetAndTopology ==
    BothGenerated =>
       ( requests[1].key = requests[2].key
         <=> /\ IdentitySet(requests[1].building_blocks)
                   = IdentitySet(requests[2].building_blocks)
             /\ repr_topology(requests[1].topology)
                   = repr_topology(requests[2].topology) )

\* two requests have got equal keys, the second with the building blocks
\* of the first in the other order, other conformer ids and no cache
C25_Witness ==
    /\ BothGenerated
    /\ requests[1].key = requests[2].key
    /\ Len(requests[1].building_blocks) = 2
    /\ requests[1].building_blocks[1].key # requests[1].building_blocks[2].key
    /\ requests[2].building_blocks
          = <<requests[1].building_blocks[2], requests[1].building_blocks[1]>>
    /\ requests[2].bb_conformers # requests[1].bb_conformers
    /\ ~requests[2].use_cache

----------------------------------------------------------------------------
\* C26, as stated: loading the document of a molecule, with or without
\* the cache, returns a molecule that is equivalent to it: it has the
\* bonds_made, the building-block counts, the topology description, the
\* conformer ids and the functional groups of the document, and its key,
\* generated from the restored building blocks and topology, is the key
\* of the molecule the document was made from.
C26_RoundTripAsClaimed ==
    mlast.op = "load" =>
       /\ mlast.error = ""
       /\ mlast.result \in 1..Len(objs)
       /\ to_json(objs[mlast.result]) = doc[1]
       /\ objs[mlast.result].key = mlast.key
       /\ \E self \in 1..Len(mlast.objs) :
             /\ to_json(mlast.objs[self]) = doc[1]
             /\ mlast.objs[self].key = mlast.key

----------------------------------------------------------------------------
(* C27 *)

RECURSIVE Replay(_, _)
\* what a Reactor working alone leaves after the calls of h
Replay(S, h) ==
    IF h = <<>> THEN S ELSE Replay(Apply(S, Head(h)), Tail(h))

\* what Reactor r and its molecule are when it makes its calls alone
Alone(r) == Replay(ReactorOn(PairScenario[r]), hist[r])

\* C27: whatever the order in which the calls on two Reactors with two
\* molecules come, each molecule's atoms, bonds, position matrix and
\* functional groups and each Reactor's bonds_made and staged ids are
\* what the calls on that Reactor alone give, and the tables of the
\* Reactor class stay as they were defined.
C27_ReactorsShareNoMutableState ==
    /\ \A r \in 1..2 : rs[r] = Alone(r)
    /\ registries = Registries

\* the calls on the two Reactors alternated, both reacted and both
\* finalized, and atoms were deleted from both molecules
C27_Witness ==
    /\ \A r \in 1..2 :
         /\ Len(hist[r]) = 2
         /\ hist[r][1].op = "add_reaction"
         /\ hist[r][2].op = "finalize"
         /\ rs[r].exc = ""
         /\ rs[r].bonds_made = 1
         /\ Len(rs[r].atoms) < Len(Scenario(PairScenario[r]).atoms)
    /\ hist[1][1].at < hist[2][1].at
    /\ hist[2][1].at < hist[1][2].at
    /\ hist[1][2].at < hist[2][2].at

----------------------------------------------------------------------------
(* C28 *)

\* the last call was a diol + dihalogen add_reaction, and it returned
DiolStepReturned ==
    /\ last.op = "add_reaction"
    /\ last.kind = "_diol_with_dihalogen"
    /\ exc = ""

\* the bonder carbons of the dihalogen and the bonder oxygens of the diol
BonderCarbons == Range(get_bonder_ids(DihalogenOf(last.fgs)))

BonderOxygens == Range(get_bonder_ids(DiolOf(last.fgs)))

\* the distance of two atoms that lie on the line
LineDistance(id1, id2) ==
    LET d == position_matrix[id1 + 1][1] - position_matrix[id2 + 1][1]
    IN  IF d < 0 THEN 0 - d ELSE d

\* the pair joined by the first and by the second bond the call added
SelectedPair(k) ==
    LET bond == bonds[Len(bonds) - 2 + k]
    IN  <<bond.atom1.int, bond.atom2.int>>

\* C28: the first pair a diol + dihalogen reaction selects is a bonder
\* carbon and a bonder oxygen than which no such pair is closer, and the
\* second is a pair of another carbon and another oxygen than which no
\* pair of another carbon and another oxygen is closer; this holds in
\* every geometry, those in which the other pairing has the smaller total
\* distance included.
C28_GreedyPairSelection ==
    DiolStepReturned =>
        LET c1 == SelectedPair(1)[1]
            o1 == SelectedPair(1)[2]
            c2 == SelectedPair(2)[1]
            o2 == SelectedPair(2)[2]
        IN  /\ {c1, c2} \subseteq BonderCarbons
            /\ {o1, o2} \subseteq BonderOxygens
            /\ \A c \in BonderCarbons : \A o \in BonderOxygens :
                 LineDistance(c1, o1) <= LineDistance(c, o)
            /\ c2 # c1
            /\ o2 # o1
            /\ \A c \in BonderCarbons \ {c1} : \A o \in BonderOxygens \ {o1} :
                 LineDistance(c2, o2) <= LineDistance(c, o)

\* the reaction returned in a geometry where the pairs it selected are
\* farther apart in total than the pairs of the other pairing
C28_Witness ==
    /\ DiolStepReturned
    /\ Len(log) = 1
    /\ LineDistance(SelectedPair(1)[1], SelectedPair(1)[2])
         + LineDistance(SelectedPair(2)[1], SelectedPair(2)[2])
       > LineDistance(SelectedPair(1)[1], SelectedPair(2)[2])
         + LineDistance(SelectedPair(2)[1], SelectedPair(1)[2])

----------------------------------------------------------------------------
(* C29 *)

\* in S every atom's id is its index in the atom list, and the position
\* matrix has one row per atom
IdsAreIndices(S) ==
    /\ Len(S.position_matrix) = Len(S.atoms)
    /\ \A k \in 1..Len(S.atoms) : S.atoms[k].id = k - 1

\* R, left by finalize called in S, lacks exactly the rows of the atoms
\* staged in S: its atoms are those not staged, it has one row per atom,
\* and row k is the row S had for the k-th of them
RowsFollowAtoms(S, R) ==
    /\ {R.atoms[k].id : k \in 1..Len(R.atoms)}
         = {S.atoms[k].id : k \in 1..Len(S.atoms)} \ S.deleter_ids
    /\ Len(R.position_matrix) = Len(R.atoms)
    /\ \A k \in 1..Len(R.atoms) :
         R.position_matrix[k] = S.position_matrix[R.atoms[k].id + 1]

\* finalize returns when called in S
FinalizeReturns(S) == finalize(S).exc = ""

\* the first finalize that returned is the last call made
FirstFinalizeDone == FinalizeDone /\ finalize_calls = 1

\* the atoms appended to the molecule by ring-amine reactions that are
\* still in it
AppendedLeft ==
    {k \in 1..Len(atoms) : atoms[k].id >= Len(InitialMol.atoms)}

\* C29: when the atoms' ids are their list indices, finalize leaves a
\* position matrix that lacks exactly the rows whose index is the id of
\* a staged atom: it has one row per remaining atom, and row k is the
\* position the k-th remaining atom had before (atoms appended by the
\* ring-amine reaction included); so after the first finalize every atom
\* the molecule had from the start is at the row of its place in the
\* list with the position it had at the start.
C29_FinalizeRemovesRowsOfStagedAtoms ==
    /\ (exc = "" /\ IdsAreIndices(Cur) /\ FinalizeReturns(Cur))
         => RowsFollowAtoms(Cur, finalize(Cur))
    /\ FirstFinalizeDone =>
         /\ Len(position_matrix) = Len(atoms)
         /\ \A k \in 1..Len(atoms) :
              k \notin AppendedLeft =>
                 position_matrix[k]
                   = InitialMol.position_matrix[atoms[k].id + 1]

\* finalize returned for the first time after a ring-amine reaction and
\* a reaction that staged atoms: rows were removed, and the rows of the
\* appended atoms were moved up
C29_Witness ==
    /\ FirstFinalizeDone
    /\ \E j \in 1..Len(log) : log[j].kind = "_ring_amine_with_ring_amine"
    /\ deleter_ids # {}
    /\ Len(position_matrix) < Len(InitialMol.position_matrix) + 9
    /\ AppendedLeft # {}
    /\ \A k \in AppendedLeft : atoms[k].id > k - 1

----------------------------------------------------------------------------
(* C30 *)

\* the order of the bond a default reaction that left R added last
OrderGiven(R) == R.bonds[Len(R.bonds)].order

\* add_reaction behaves alike for two argument lists, the first of the
\* names fg_names, for which it chooses kind_f and kind_g and leaves Rf
\* and Rg: the same custom procedure or, with none, the same bond order,
\* which is 2 for an aldehyde and an amine
SameBehaviour(fg_names, kind_f, kind_g, Rf, Rg) ==
    /\ kind_f = kind_g
    /\ (kind_f = "default" /\ Rf.exc = "" /\ Rg.exc = "")
         => /\ OrderGiven(Rf) = OrderGiven(Rg)
            /\ SameMultiset(fg_names, <<"aldehyde", "amine">>)
                 => OrderGiven(Rf) = 2

\* kind[fgs] being what add_reaction chooses when called in S with fgs,
\* and res[fgs] what it leaves: alike for lists of the same names, and
\* for a key with a custom procedure what the procedure leaves when
\* called in S
ChosenByNames(S, kind, res) ==
    /\ \A fgs \in FgArgs(S) : \A gs \in FgArgs(S) :
         SameMultiset(Names(S, fgs), Names(S, gs))
           => SameBehaviour(Names(S, fgs), kind[fgs], kind[gs],
                            res[fgs], res[gs])
    /\ \A fgs \in FgArgs(S) :
         kind[fgs] # "default"
           => res[fgs] = CallCustom(kind[fgs], S, fgs)

\* C30: in every state, add_reaction behaves alike for any two argument
\* lists whose type names are the same multiset (the same custom
\* procedure, or the same bond order: 2 for an amine and an aldehyde in
\* either order), and for arguments whose key has a custom procedure it
\* leaves exactly what that procedure leaves when called on the state
\* add_reaction was called in: add_reaction itself stages nothing, adds no
\* bond and does not raise bonds_made.
C30_BehaviourFromMultisetOfNames ==
    exc = "" =>
        ChosenByNames(Cur, [fgs \in FgArgs(Cur) |-> Kind(Cur, fgs)],
                      [fgs \in FgArgs(Cur) |-> add_reaction(Cur, fgs)])

\* add_reaction was called with the dihalogen before the diol, found the
\* custom procedure and returned: two bonds were made and nothing is
\* staged
C30_Witness ==
    /\ last.op = "add_reaction"
    /\ last.kind = "_diol_with_dihalogen"
    /\ InitialMol.func_groups[last.fgs[1]].fg_type = "dibromine"
    /\ exc = ""
    /\ Len(log) = 1
    /\ bonds_made = 2
    /\ deleter_ids = {}

----------------------------------------------------------------------------
(* C31 *)

\* the step is an add_periodic_reaction call
PeriodicStep == last'.op = "add_periodic_reaction"

\* the groups of the call are two, and each has a bonder
TwoGroupsWithBonders(fgs) ==
    /\ Len(fgs) = 2
    /\ \A k \in 1..2 : func_groups[fgs[k]].bonders # <<>>

\* the step appended one PeriodicBond, from the first bonder of the first
\* group to the first bonder of the second in the direction given, and
\* nothing else to the molecule
OnePeriodicBondAdded ==
    /\ Len(bonds') = Len(bonds) + 1
    /\ IsPrefix(bonds, bonds')
    /\ bonds'[Len(bonds')].periodic
    /\ bonds'[Len(bonds')].atom1 = func_groups[last'.fgs[1]].bonders[1]
    /\ bonds'[Len(bonds')].atom2 = func_groups[last'.fgs[2]].bonders[1]
    /\ bonds'[Len(bonds')].direction = last'.direction
    /\ bonds'[Len(bonds')].order \in 1..3
    /\ atoms' = atoms
    /\ position_matrix' = position_matrix

\* C31: with the empty periodic registry, every add_periodic_reaction on
\* two groups that have a bonder each (those whose key has a non-periodic
\* custom procedure included) returns, having taken the default path: it
\* appends exactly one PeriodicBond between the two first bonders and
\* raises bonds_made by 1; a call on other arguments fails on the default
\* path (ValueError, IndexError) and appends nothing.
C31_PeriodicIgnoresNonPeriodicRegistry ==
    [][PeriodicStep =>
        /\ TwoGroupsWithBonders(last'.fgs) =>
              /\ exc' = ""
              /\ OnePeriodicBondAdded
              /\ bonds_made' = bonds_made + 1
        /\ ~TwoGroupsWithBonders(last'.fgs) =>
              /\ exc' \in {"ValueError", "IndexError"}
              /\ bonds' = bonds
              /\ atoms' = atoms
              /\ bonds_made' = bonds_made
    ]_vars

\* a periodic reaction of a boronic acid and a diol, whose key has a
\* custom procedure in the non-periodic registry, has returned with one
\* bond made
C31_Witness ==
    /\ last.op = "add_periodic_reaction"
    /\ SameMultiset(Names(Cur, last.fgs), <<"boronic_acid", "diol">>)
    /\ InTable(custom_reactions, ReactionKey(Names(Cur, last.fgs)))
    /\ exc = ""
    /\ bonds_made = 1
    /\ bonds[Len(bonds)].periodic

----------------------------------------------------------------------------
(* C32, C33 *)

\* the last call was a ring amine + ring amine add_reaction on two
\* groups, and it returned
RingAmineReturned ==
    /\ last.op = "add_reaction"
    /\ last.kind = "_ring_amine_with_ring_amine"
    /\ last.fgs[1] # last.fgs[2]
    /\ exc = ""

\* the bonder of atomic number z of the k-th group of the last call
RingBonder(k, z) == FirstWith(func_groups[last.fgs[k]].bonders, z)[1]

\* the nine atoms and the twelve bonds the last call appended
NewRingAtoms == {atoms[k] : k \in (Len(atoms) - 8)..Len(atoms)}

NewRingBonds == {bonds[k] : k \in (Len(bonds) - 11)..Len(bonds)}

\* the atoms a new bond joins to a
BondedTo(a) ==
    {b.atom2 : b \in {x \in NewRingBonds : x.atom1 = a}}
        \cup {b.atom1 : b \in {x \in NewRingBonds : x.atom2 = a}}

\* the new atoms of atomic number z
NewOf(z) == {a \in NewRingAtoms : a.atomic_number = z}

\* a is bonded to p, to q and to two new hydrogens, and to nothing else
Bridges(a, p, q) ==
    /\ {p, q} \subseteq BondedTo(a)
    /\ Cardinality(BondedTo(a) \cap NewOf(1)) = 2
    /\ Cardinality(BondedTo(a)) = 4

\* C32, as stated: the 9 new atoms of a ring amine + ring amine reaction
\* are 1 nitrogen, 2 carbons and 6 hydrogens; the new nitrogen is bonded
\* to the bonder nitrogens of both groups and to 2 new hydrogens; of the
\* new carbons one is bonded to the bonder carbon of the first group, the
\* bonder nitrogen of the second and 2 new hydrogens, the other to the
\* bonder carbon of the second group, the bonder nitrogen of the first and
\* 2 new hydrogens; all 12 bonds have order 1.
C32_RingAmineCompositionAsClaimed ==
    RingAmineReturned =>
        /\ Cardinality(NewOf(7)) = 1
        /\ Cardinality(NewOf(6)) = 2
        /\ Cardinality(NewOf(1)) = 6
        /\ \A a \in NewOf(7) : Bridges(a, RingBonder(1, 7), RingBonder(2, 7))
        /\ \E a \in NewOf(6) : Bridges(a, RingBonder(1, 6), RingBonder(2, 7))
        /\ \E a \in NewOf(6) : Bridges(a, RingBonder(2, 6), RingBonder(1, 7))
        /\ \A b \in NewRingBonds : b.order = 1

\* the position of an atom of the molecule
PositionOf(a) == position_matrix[a.id + 1]

\* the point halfway between the atoms p and q
Midpoint(p, q) == VecHalf(VecAdd(PositionOf(p), PositionOf(q)))

\* the new atoms a is bonded to lie at the position of a moved by +1 and
\* by -1 along the z axis
HydrogensAboveAndBelow(a) ==
    {PositionOf(h) : h \in BondedTo(a) \cap NewRingAtoms}
        = {VecAdd(PositionOf(a), ZUp), VecAdd(PositionOf(a), ZDown)}

\* C33, as stated: the atom that bridges the two bonder nitrogens n1 and
\* n2 lies at their midpoint, the atom that bridges c1 and n2 at the
\* midpoint of c1 and n2, the atom that bridges c2 and n1 at the midpoint
\* of c2 and n1, and the two hydrogens of each lie at its position moved
\* by +1 and by -1 along the z axis.
C33_RingAminePositionsAsClaimed ==
    RingAmineReturned =>
        \A a \in NewRingAtoms :
            /\ {RingBonder(1, 7), RingBonder(2, 7)} \subseteq BondedTo(a)
                 => /\ PositionOf(a)
                         = Midpoint(RingBonder(1, 7), RingBonder(2, 7))
                    /\ HydrogensAboveAndBelow(a)
            /\ {RingBonder(1, 6), RingBonder(2, 7)} \subseteq BondedTo(a)
                 => /\ PositionOf(a)
                         = Midpoint(RingBonder(1, 6), RingBonder(2, 7))
                    /\ HydrogensAboveAndBelow(a)
            /\ {RingBonder(2, 6), RingBonder(1, 7)} \subseteq BondedTo(a)
                 => /\ PositionOf(a)
                         = Midpoint(RingBonder(2, 6), RingBonder(1, 7))
                    /\ HydrogensAboveAndBelow(a)

----------------------------------------------------------------------------
(* C34 *)

\* the step is a finalize call that returns, made right after a finalize
\* call that returned
SecondFinalizeStep ==
    /\ FinalizeReturned
    /\ last'.op = "finalize"
    /\ exc' = ""
    /\ finalize_calls' = finalize_calls + 1

\* C34, as stated: a finalize called right after a finalize leaves the
\* atom list, the bond list and the position matrix as they were, and
\* returns the same bond count.
C34_SecondFinalizeNoOpAsClaimed ==
    [][SecondFinalizeStep =>
          /\ atoms' = atoms
          /\ bonds' = bonds
          /\ position_matrix' = position_matrix
          /\ returned' = returned
    ]_vars

----------------------------------------------------------------------------
(* C35 *)

\* the bonds the molecule had at first that touch no deleted atom
SurvivingBonds ==
    {k \in 1..Len(InitialMol.bonds) :
        /\ InitialMol.bonds[k].atom1.id \notin deleter_ids
        /\ InitialMol.bonds[k].atom2.id \notin deleter_ids}

\* C35, as stated: when the first finalize has returned, the bond list
\* holds as many bonds as the molecule had at first that touch no deleted
\* atom, plus the count finalize returned.
C35_CountedBondsPresentAsClaimed ==
    (FinalizeReturned /\ finalize_calls = 1) =>
        Len(bonds) = Cardinality(SurvivingBonds) + returned[1]

----------------------------------------------------------------------------
(* C36 *)

\* the step is a reaction call that failed on the default path: the
\* groups were not two, or one of them had no bonder
FailedDefaultStep ==
    /\ ReactionStep
    /\ last'.kind = "default"
    /\ exc' \in {"ValueError", "IndexError"}

\* C36, as stated: a reaction call that fails on the default path has
\* added no bond, leaves the bond count and the deletion set as they were,
\* and leaves the atoms and the deleters of the groups passed in as they
\* were.
C36_FailedReactionAtomicAsClaimed ==
    [][FailedDefaultStep =>
          /\ bonds' = bonds
          /\ bonds_made' = bonds_made
          /\ deleter_ids' = deleter_ids
          /\ \A k \in 1..Len(last'.fgs) :
                /\ func_groups'[last'.fgs[k]].atoms
                      = func_groups[last'.fgs[k]].atoms
                /\ func_groups'[last'.fgs[k]].deleters
                      = func_groups[last'.fgs[k]].deleters
    ]_vars

----------------------------------------------------------------------------
(* C37 *)

\* the atoms of a list that are not staged in S, in their order
Unstaged(S, atom_seq) ==
    LET Keep(a) == a.id \notin S.deleter_ids
    IN  SelectSeq(atom_seq, Keep)

\* the bonds of a list neither of whose ends is staged in S, in their
\* order
UnstagedBonds(S, bond_seq) ==
    LET Keep(b) == /\ EndId(b.atom1) \notin S.deleter_ids
                   /\ EndId(b.atom2) \notin S.deleter_ids
    IN  SelectSeq(bond_seq, Keep)

\* R, left by finalize called in S, has every atom and every bond of S
\* that is not staged, in the order and with the ids and orders of S
NothingElseRemoved(S, R) ==
    /\ Unstaged(S, R.atoms) = Unstaged(S, S.atoms)
    /\ UnstagedBonds(S, R.bonds) = UnstagedBonds(S, S.bonds)

\* C37: finalize, called in any state, leaves every atom whose id is not
\* staged and every bond neither of whose ends is staged in the molecule,
\* in the same order, the atoms with their ids and the bonds with their
\* orders; so after the first finalize the atoms the molecule had at first
\* that are not staged are in the atom list as they were, and its bonds
\* that touch no staged atom are the first bonds of the bond list.
C37_FinalizeRemovesNothingElse ==
    /\ exc = "" => NothingElseRemoved(Cur, finalize(Cur))
    /\ FirstFinalizeDone =>
         /\ Unstaged(Cur, InitialMol.atoms)
              = SubSeq(atoms, 1, Len(Unstaged(Cur, InitialMol.atoms)))
         /\ IsPrefix(UnstagedBonds(Cur, InitialMol.bonds), bonds)

\* finalize returned on the amine and the aldehyde: atoms are gone, the
\* atoms left have the ids they had, which are no longer their places,
\* and the double bond the molecule had is still there
C37_Witness ==
    /\ FinalizeReturned
    /\ finalize_calls = 1
    /\ scenario = "amine_aldehyde"
    /\ Len(atoms) < Len(InitialMol.atoms)
    /\ \E k \in 1..Len(atoms) : atoms[k].id # k - 1
    /\ InitialMol.bonds[5] \in Range(bonds)
    /\ InitialMol.bonds[5].order = 2

----------------------------------------------------------------------------
(* C38 *)

\* no two atoms of the atom list have the same id
IdsDistinct ==
    \A j \in 1..Len(atoms) : \A k \in 1..Len(atoms) :
        atoms[j].id = atoms[k].id => j = k

\* C38: the molecule the Reactor is created on having atoms whose ids are
\* their list indices, in every state before finalize the ids of the atoms
\* are pairwise distinct and are their list indices (so the atoms every
\* ring-amine reaction appends have ids no other atom has), and the
\* position matrix has one row per atom.
C38_AtomIdsAreIndicesBeforeFinalize ==
    (IdsAreIndices(InitialMol) /\ BeforeFinalize) =>
        /\ IdsDistinct
        /\ IdsAreIndices(Cur)

\* before finalize, two ring-amine reactions have appended 18 atoms
C38_Witness ==
    /\ BeforeFinalize
    /\ exc = ""
    /\ Len(log) = 2
    /\ \A k \in 1..2 : log[k].kind = "_ring_amine_with_ring_amine"
    /\ Len(atoms) = Len(InitialMol.atoms) + 18
    /\ atoms[Len(atoms)].id = Len(InitialMol.atoms) + 17

----------------------------------------------------------------------------
(* C39 *)

\* no atom is in two of the groups of S
GroupsDisjoint(S) ==
    \A i \in 1..Len(S.func_groups) : \A j \in 1..Len(S.func_groups) :
        i # j =>
            {a.id : a \in Range(S.func_groups[i].atoms)}
              \cap {a.id : a \in Range(S.func_groups[j].atoms)} = {}

\* the calls of the log, in the order p
Reordered(p) == [k \in 1..Len(log) |-> log[p[k]]]

\* R has the atoms, the bonds, the bond count and the groups the Reactor
\* and its molecule have
SameOutcome(R) ==
    /\ R.exc = ""
    /\ Range(R.atoms) = Range(atoms)
    /\ Range(R.bonds) = Range(bonds)
    /\ R.bonds_made = bonds_made
    /\ \A i \in 1..Len(func_groups) :
         /\ R.func_groups[i].atoms = func_groups[i].atoms
         /\ R.func_groups[i].deleters = func_groups[i].deleters

\* C39: the groups of the molecule sharing no atom, and the add_reaction
\* calls made all taking the default path, the calls made in any other
\* order and followed by finalize give the same set of atoms, the same set
\* of bonds, the same bonds_made and the same atoms and deleters of every
\* group as they gave in the order they were made in.
C39_DisjointReactionsCommute ==
    (/\ FirstFinalizeDone
     /\ GroupsDisjoint(InitialMol)
     /\ \A k \in 1..Len(log) : log[k].kind = "default") =>
        \A p \in Permutations(1..Len(log)) :
            SameOutcome(finalize(Replay(ReactorOn(scenario), Reordered(p))))

\* two reactions were made and finalize returned: a double bond between
\* the first amine and the first aldehyde, then a single bond between the
\* two amines
C39_Witness ==
    /\ FirstFinalizeDone
    /\ scenario = "amines_aldehydes"
    /\ Len(log) = 2
    /\ log[1].fgs = <<1, 2>>
    /\ log[2].fgs = <<3, 1>>
    /\ bonds_made = 2
    /\ Len(atoms) = Len(InitialMol.atoms) - 5
    /\ {b.order : b \in {bonds[Len(bonds) - 1], bonds[Len(bonds)]}} = {1, 2}

====
